---- MODULE Spec2Model ----
(***************************************************************************)
(* MonadRush: the deterministic simulation core.                           *)
(*                                                                         *)
(*   - XORShift32 / GameRNG / createSessionRNG      (lib/rng.ts)           *)
(*   - the scoring and effect functions             (lib/game-logic)       *)
(*   - GameStateManager                             (lib/game-state.ts)    *)
(*   - the session start / finish routes            (app/api)              *)
(*                                                                         *)
(* Representation of JavaScript numbers.  An integer-valued number n is    *)
(* the triple <<top, hi, lo>> with n = top*2^32 + hi*2^16 + lo and         *)
(* 0 <= hi, lo < 2^16; top is any integer, so an int32 below zero has      *)
(* top = -1 and a uint32 has top = 0.  The 32-bit conversions of the       *)
(* language (ToInt32 for << ^ &, ToUint32 for >>>) are then operations on  *)
(* the triple and keep their width.                                        *)
(*                                                                         *)
(* A number that need not be an integer (timeLeft, a speed, a spawn delay,  *)
(* a coordinate, a size) is an IEEE 754 double, see Numbers below.         *)
(*                                                                         *)
(* Scaled quantities, all exact: combo is held in tenths (combo 1.5 is     *)
(* 15), an effect's duration and every time of the clock in milliseconds,  *)
(* an effect's value payload in tenths (0.5 is 5, -20 is -200), and the    *)
(* constants of GAME_CONFIG in the units stated with them.                 *)
(***************************************************************************)
EXTENDS Integers, Sequences, FiniteSets, TLC

VARIABLES
    rng1,        \* an XORShift32 instance: [seed, state, out, sets]
    rng2,        \* a second, independently constructed instance
    gameState,   \* GameState of lib/game-logic
    now,         \* Date.now(), in ms
    lastTap,     \* the last processTap call: [type, card, result] (and whether
                 \* the card's effect was active when it was made), or NoTap
    script,      \* the taps so far, while they are logos then one bomb; where
                 \* the SessionAPI client is followed, the client: [api,
                 \* finishSessions]
    taps,        \* number of taps made so far in this behaviour
    ticks,       \* number of frames run so far in this behaviour
    session,     \* GameStateManager.session (its gameState is the variable
                 \* gameState, its rng the variable rng1), or NoSession
    spawnManager,     \* session.spawnManager: [config, lastSpawnTime, nextSpawnDelay]
    gameObjectPool,   \* the ObjectPool singleton: per type [total, inUse]
    animationFrameId, \* GameStateManager.animationFrameId: NoFrame, or the id of a
                      \* frame callback that is Requested or that has run (Stale)
    kv,          \* the session record the server keeps in the KV store
    finish,      \* what the routes have stored or settled so far, or NoFinish
    call,        \* the last call made on the GameStateManager, where calls are
                 \* followed: [op, at, returned, assigned], or NoCall; where
                 \* requests are followed, the requests sent, each at one of the
                 \* awaits of its route
    antiCheat,   \* the anti-cheat functions' results: [results, risk, timing]
    contractManager  \* GameStateManager.contractManager: whether one is set, and
                     \* the promises its calls have returned

\* the variables of the client session and of the server
sessionVars ==
    <<session, spawnManager, gameObjectPool, animationFrameId, kv, finish, call, antiCheat,
      contractManager>>

vars == <<rng1, rng2, gameState, now, lastTap, script, taps, ticks, sessionVars>>

-----------------------------------------------------------------------------
(* 16-bit halves and 32-bit words *)

B16 == 2 ^ 16

B15 == 2 ^ 15

RECURSIVE XorBits(_, _, _)
\* bitwise exclusive or of two n-bit naturals
XorBits(a, b, n) ==
    IF n = 0 THEN 0
    ELSE ((a + b) % 2) + 2 * XorBits(a \div 2, b \div 2, n - 1)

\* exclusive or of two 4-bit naturals, tabulated
Xor4 == [a \in 0..15 |-> [b \in 0..15 |-> XorBits(a, b, 4)]]

\* exclusive or of two 16-bit naturals, four bits at a time
Xor16(a, b) ==
      Xor4[a % 16][b % 16]
    + 16 * Xor4[(a \div 16) % 16][(b \div 16) % 16]
    + 256 * Xor4[(a \div 256) % 16][(b \div 256) % 16]
    + 4096 * Xor4[a \div 4096][b \div 4096]

\* the number with value n, for an n that fits a model integer
NumOfInt(n) == << (n \div B16) \div B16, (n \div B16) % B16, n % B16 >>

Zero == <<0, 0, 0>>

\* ToUint32: the low 32 bits read as an unsigned number (x >>> 0)
ToUint32(x) == <<0, x[2], x[3]>>

\* ToInt32: the low 32 bits read as a two's complement number
ToInt32(x) == << IF x[2] >= B15 THEN -1 ELSE 0, x[2], x[3] >>

\* x << k with p = 2^k and q = 2^(16 - k)
ShlBy(x, p, q) == ToInt32(<<0, (x[2] % q) * p + (x[3] \div q), (x[3] % q) * p>>)

\* x << k for 0 < k < 16 (result is an int32)
Shl(x, k) == ShlBy(x, 2 ^ k, 2 ^ (16 - k))

\* x >>> 17 (result is a uint32)
Shr17(x) == <<0, 0, x[2] \div 2>>

\* a ^ b (result is an int32)
Xor(a, b) == ToInt32(<<0, Xor16(a[2], b[2]), Xor16(a[3], b[3])>>)

\* the number top * 2^32 + hi * 2^16 + lo for any integers hi and lo
Carry(top, hi, lo) == <<top + ((hi + (lo \div B16)) \div B16), (hi + (lo \div B16)) % B16, lo % B16>>

\* a - b and a + b on numbers, exact (no 32-bit wrap)
Sub(a, b) == Carry(a[1] - b[1], a[2] - b[2], a[3] - b[3])

Add(a, b) == Carry(a[1] + b[1], a[2] + b[2], a[3] + b[3])

-----------------------------------------------------------------------------
(* XORShift32 *)

\* a constructor that forgets the zero remap
XORShift32_NoRemap(seed) == ToUint32(seed)

\* constructor: this.state = seed === 0 ? 1 : seed >>> 0
XORShift32(seed) == IF seed = Zero THEN <<0, 0, 1>> ELSE ToUint32(seed)

\* x ^= x << 13
XorShl13(x) == Xor(x, Shl(x, 13))

\* x ^= x >>> 17
XorShr17(x) == Xor(x, Shr17(x))

\* x ^= x << 5
XorShl5(x) == Xor(x, Shl(x, 5))

\* the three xorshift steps of next() on this.state
NextState(state) == XorShl5(XorShr17(XorShl13(state)))

\* next(): the value returned, this.state >>> 0
NextValue(state) == ToUint32(NextState(state))

\* setState(state): this.state = state >>> 0
SetState(v) == ToUint32(v)


\* createSessionRNG's seed: repeated ((seed << 5) - seed + charCode) & 0xffffffff
RECURSIVE SessionSeed(_, _)
SessionSeed(sessionId, timestamp) ==
    IF sessionId = <<>> THEN timestamp
    ELSE LET prev == SessionSeed(SubSeq(sessionId, 1, Len(sessionId) - 1), timestamp)
             c    == sessionId[Len(sessionId)]
         IN  ToInt32(Add(Sub(Shl(prev, 5), prev), NumOfInt(c)))

\* createSessionRNG(sessionId, timestamp): the state of the generator it returns
CreateSessionRNG(sessionId, timestamp) == XORShift32(SessionSeed(sessionId, timestamp))

-----------------------------------------------------------------------------
(* Numbers.  The numbers of the program are IEEE 754 doubles.  Those the    *)
(* code keeps integral are TLA+ integers; the others are records            *)
(* [neg, exp, mant] with the value (-1)^neg * mant * Limb^exp, mant being a *)
(* natural number of at most 53 bits given by its digits in base Limb, the  *)
(* lowest first, with neither the lowest nor the highest digit zero.  Every *)
(* operation gives the exact result rounded to the nearest double, ties to  *)
(* even, as the operators of the language do.                               *)

Limb == 2 ^ 14

Min(a, b) == IF a < b THEN a ELSE b

Max(a, b) == IF a > b THEN a ELSE b

\* the number of bits of a digit x > 0
BitLen(x) == CHOOSE t \in 1..14 : 2 ^ (t - 1) <= x /\ x < 2 ^ t

\* a sequence given as a function on 1..n, as the tuple of its values
AsSeq(f) == f \o <<>>

\* n zero digits
Zeros(n) == AsSeq([i \in 1..n |-> 0])

\* the digit of place i of a, zero above its digits
At(a, i) == IF i \in 1..Len(a) THEN a[i] ELSE 0

\* the place of the highest nonzero digit of a, 0 if it has none
TopPlace(a) ==
    IF \A i \in 1..Len(a) : a[i] = 0 THEN 0
    ELSE CHOOSE i \in 1..Len(a) : a[i] # 0 /\ \A j \in (i + 1)..Len(a) : a[j] = 0

\* a without its zero digits at the top
BigTrim(a) == IF a = <<>> \/ a[Len(a)] # 0 THEN a ELSE SubSeq(a, 1, TopPlace(a))

\* whether a carry comes into place i, each entry of v being below
\* 2 * Limb - 1 and the first one below 2 * Limb
CarryIn(v, i) ==
    \E j \in 1..(i - 1) : v[j] >= Limb /\ \A k \in (j + 1)..(i - 1) : v[k] = Limb - 1

\* the digits of the number whose place i holds v[i], for such entries, the
\* last of which takes the last carry
Rippled(v) ==
    AsSeq([i \in 1..Len(v) |-> (v[i] + (IF CarryIn(v, i) THEN 1 ELSE 0)) % Limb])

\* the same number with each entry cut to a digit and what is above the
\* digit moved one place up
Shifted(v) == AsSeq([i \in 1..(Len(v) + 1) |-> (At(v, i) % Limb) + (At(v, i - 1) \div Limb)])

\* the digits of the number whose place i holds cols[i], each below 2^31
Carried(cols) == BigTrim(Rippled(Shifted(Shifted(cols))))

\* a + b on naturals given by their digits
BigAdd(a, b) ==
    BigTrim(Rippled(AsSeq([i \in 1..(Max(Len(a), Len(b)) + 1) |-> At(a, i) + At(b, i)])))

\* a - b for a >= b: a plus what b lacks to the power of Limb above a, less
\* that power
BigSub(a, b) ==
    BigTrim(SubSeq(Rippled(AsSeq([i \in 1..(Len(a) + 1) |->
                                     IF i > Len(a) THEN 0
                                     ELSE a[i] + (Limb - 1 - At(b, i))
                                          + (IF i = 1 THEN 1 ELSE 0)])),
                   1, Len(a)))

\* the place of the highest digit in which a and b, of one length, differ
TopDiff(a, b) ==
    CHOOSE i \in 1..Len(a) : a[i] # b[i] /\ \A j \in (i + 1)..Len(a) : a[j] = b[j]

\* -1, 0 or 1 as a is below, equal to or above b (neither has a zero top digit)
BigCmp(a, b) ==
    IF Len(a) < Len(b) THEN -1
    ELSE IF Len(a) > Len(b) THEN 1
    ELSE IF a = b THEN 0
    ELSE IF a[TopDiff(a, b)] < b[TopDiff(a, b)] THEN -1
    ELSE 1

\* a * k for a digit k
BigMulSmall(a, k) == Carried(AsSeq([i \in 1..Len(a) |-> a[i] * k]))

\* the sum of the products a[i - j + 1] * b[j] over the first j digits of b
RECURSIVE Column(_, _, _, _)
Column(a, b, i, j) ==
    IF j = 0 THEN 0 ELSE At(a, i - j + 1) * b[j] + Column(a, b, i, j - 1)

\* a * b, b of at most seven digits
BigMul(a, b) ==
    IF a = <<>> \/ b = <<>> THEN <<>>
    ELSE Carried(AsSeq([i \in 1..(Len(a) + Len(b) - 1) |-> Column(a, b, i, Len(b))]))

\* a ^ n, a of at most seven digits
RECURSIVE BigPow(_, _)
BigPow(a, n) == IF n = 0 THEN <<1>> ELSE BigMul(BigPow(a, n - 1), a)

\* the natural number of the digits m, below 2^31
RECURSIVE BigInt(_)
BigInt(m) == IF m = <<>> THEN 0 ELSE m[1] + Limb * BigInt(Tail(m))

\* the largest q <= guess with q * d <= r
RECURSIVE DigitFrom(_, _, _)
DigitFrom(r, d, guess) ==
    IF BigCmp(BigMulSmall(d, guess), r) <= 0 THEN guess ELSE DigitFrom(r, d, guess - 1)

\* the largest digit q with q * d <= r, for r < Limb * d and a d whose top
\* digit is Limb / 2 or more: the two top places of r divided by the top
\* digit of d give it or at most two more
BigDigit(r, d) ==
    DigitFrom(r, d, Min(Limb - 1,
                        (At(r, Len(d) + 1) * Limb + At(r, Len(d))) \div d[Len(d)]))

\* long division of n by d from the digit i of n down: r is the remainder
\* of the digits above it and quot their quotient
RECURSIVE BigDivFrom(_, _, _, _, _)
BigDivStep(n, d, i, r, q, quot) ==
    IF q = 0 THEN BigDivFrom(n, d, i - 1, r, <<0>> \o quot)
    ELSE BigDivFrom(n, d, i - 1, BigSub(r, BigMulSmall(d, q)), <<q>> \o quot)

BigDivDigit(n, d, i, r, quot) == BigDivStep(n, d, i, r, BigDigit(r, d), quot)

BigDivFrom(n, d, i, r, quot) ==
    IF i = 0 THEN [quot |-> quot, rem |-> r]
    ELSE BigDivDigit(n, d, i, BigTrim(<<n[i]>> \o r), quot)

\* the division of n by d when the top digit of d is Limb / 2 or more and n
\* has the digits of d or more: the digits of n above those of d are the
\* first remainder
BigDivScaled(n, d) ==
    BigDivFrom(n, d, Len(n) - Len(d) + 1, SubSeq(n, Len(n) - Len(d) + 2, Len(n)), <<>>)

\* the factor that brings the top digit of d to Limb / 2 or more
Scale(d) == Limb \div (d[Len(d)] + 1)

\* long division of n by a digit k > 0 from the digit i of n down, r being
\* the remainder of the digits above it and quot their quotient
RECURSIVE SmallDivFrom(_, _, _, _, _)
SmallDivFrom(n, k, i, r, quot) ==
    IF i = 0 THEN [quot |-> quot, rem |-> IF r = 0 THEN <<>> ELSE <<r>>]
    ELSE SmallDivFrom(n, k, i - 1, (r * Limb + n[i]) % k,
                      <<(r * Limb + n[i]) \div k>> \o quot)

\* the quotient of n by d > 0, and whether they leave a remainder: rem is
\* the remainder, times Scale(d) when d has several digits
BigDiv(n, d) ==
    IF Len(d) = 1 THEN SmallDivFrom(n, d[1], Len(n), 0, <<>>)
    ELSE BigDivScaled(BigMulSmall(n, Scale(d)), BigMulSmall(d, Scale(d)))

\* the double zero
Zero64 == [neg |-> FALSE, exp |-> 0, mant |-> <<>>]

\* the number of zero digits at the bottom of m, whose top digit is not zero
LowZeros(m) == CHOOSE k \in 0..(Len(m) - 1) : m[k + 1] # 0 /\ \A j \in 1..k : m[j] = 0

\* the double of value (-1)^neg * m * Limb^exp for m of at most 53 bits
\* with no zero digit at the top: the zero digits at the bottom go
Canon(neg, m, exp) ==
    IF m = <<>> THEN Zero64
    ELSE [neg |-> neg, exp |-> exp + LowZeros(m), mant |-> SubSeq(m, LowZeros(m) + 1, Len(m))]

\* rounding to 53 bits: the j lowest digits of m and the r lowest bits of
\* the next digit c go, and the rest is rounded up when what goes is more
\* than half of its unit, or is half of it and the rest is odd
RoundCut(neg, m, exp, j, r, c) ==
    LET low  == c % (2 ^ r)
        kept == <<c - low>> \o SubSeq(m, j + 2, Len(m))
        half == IF r > 0 THEN low >= 2 ^ (r - 1) ELSE m[j] >= 2 ^ 13
        rest == IF r > 0
                THEN low % (2 ^ (r - 1)) # 0 \/ \E i \in 1..j : m[i] # 0
                ELSE m[j] % (2 ^ 13) # 0 \/ \E i \in 1..(j - 1) : m[i] # 0
        odd  == (c \div (2 ^ r)) % 2 = 1
    IN  Canon(neg, IF half /\ (rest \/ odd) THEN BigAdd(kept, <<2 ^ r>>) ELSE kept,
              exp + j)

\* the double nearest to (-1)^neg * m * Limb^exp, m with no zero digit at
\* the top and of bits bits
RoundBits(neg, m, exp, bits) ==
    IF bits <= 53 THEN Canon(neg, m, exp)
    ELSE RoundCut(neg, m, exp, (bits - 53) \div 14, (bits - 53) % 14,
                  m[(bits - 53) \div 14 + 1])

Round(neg, m, exp) ==
    IF m = <<>> THEN Zero64
    ELSE RoundBits(neg, m, exp, 14 * (Len(m) - 1) + BitLen(m[Len(m)]))

\* the doubles next to (-1)^neg * m * Limb^exp on either side of it, the j
\* lowest digits of m and the r lowest bits of the next digit c being cut:
\* the double itself when nothing but zeros is cut
BracketCut(neg, m, exp, j, r, c) ==
    LET low  == c % (2 ^ r)
        kept == <<c - low>> \o SubSeq(m, j + 2, Len(m))
    IN  {Canon(neg, kept, exp + j)}
        \cup (IF low = 0 /\ \A i \in 1..j : m[i] = 0 THEN {}
              ELSE {Canon(neg, BigAdd(kept, <<2 ^ r>>), exp + j)})

BracketBits(neg, m, exp, bits) ==
    IF bits <= 53 THEN {Canon(neg, m, exp)}
    ELSE BracketCut(neg, m, exp, (bits - 53) \div 14, (bits - 53) % 14,
                    m[(bits - 53) \div 14 + 1])

Bracket(neg, m, exp) ==
    IF m = <<>> THEN {Zero64}
    ELSE BracketBits(neg, m, exp, 14 * (Len(m) - 1) + BitLen(m[Len(m)]))

\* the double of an integer n, |n| < 2^31
AbsInt(n) == IF n < 0 THEN -n ELSE n

Double(n) ==
    Canon(n < 0,
          BigTrim(<<AbsInt(n) % Limb, (AbsInt(n) \div Limb) % Limb, AbsInt(n) \div (Limb * Limb)>>),
          0)

\* the place above the top digit of a nonzero double
Top(a) == a.exp + Len(a.mant)

\* -a
Neg(a) == IF a.mant = <<>> THEN a ELSE [a EXCEPT !.neg = ~@]

\* the digits of a nonzero double from the place e <= a.exp on
DigitsFrom(a, e) == Zeros(a.exp - e) \o a.mant

\* -1, 0 or 1 as |a| is below, equal to or above |b|, for nonzero a and b
CmpAbs(a, b) ==
    IF Top(a) < Top(b) THEN -1
    ELSE IF Top(a) > Top(b) THEN 1
    ELSE BigCmp(DigitsFrom(a, Min(a.exp, b.exp)), DigitsFrom(b, Min(a.exp, b.exp)))

\* a + b for nonzero a and b whose top digits are at most seven places apart,
\* |a| >= |b|
AddNear(a, b, e) ==
    IF a.neg = b.neg
    THEN Round(a.neg, BigAdd(DigitsFrom(a, e), DigitsFrom(b, e)), e)
    ELSE Round(a.neg, BigSub(DigitsFrom(a, e), DigitsFrom(b, e)), e)

\* a + b for nonzero a and b, |a| >= |b|: a b far below a counts as one
\* unit far below a
AddOrdered(a, b) ==
    IF Top(a) - Top(b) > 7
    THEN AddNear(a, [neg |-> b.neg, exp |-> Top(a) - 8, mant |-> <<1>>], Top(a) - 8)
    ELSE AddNear(a, b, Min(a.exp, b.exp))

\* a + b
FAdd(a, b) ==
    IF b.mant = <<>> THEN a
    ELSE IF a.mant = <<>> THEN b
    ELSE IF CmpAbs(a, b) >= 0 THEN AddOrdered(a, b) ELSE AddOrdered(b, a)

\* a - b
FSub(a, b) == FAdd(a, Neg(b))

\* a * b
FMul(a, b) == Round(a.neg # b.neg, BigMul(a.mant, b.mant), a.exp + b.exp)

\* a / b for b # 0: the quotient to five digits or more, and below them a
\* digit that says whether there is a remainder
Quotient(neg, qr, exp) ==
    Round(neg, BigTrim(<<IF qr.rem = <<>> THEN 0 ELSE 1>> \o qr.quot), exp)

DivShifted(a, b, k) ==
    Quotient(a.neg # b.neg, BigDiv(Zeros(k) \o a.mant, b.mant), a.exp - b.exp - k - 1)

FDiv(a, b) ==
    IF a.mant = <<>> THEN a
    ELSE DivShifted(a, b, Max(0, 5 + Len(b.mant) - Len(a.mant)))

\* the double one
One64 == [neg |-> FALSE, exp |-> 0, mant |-> <<1>>]

\* the doubles next to 1 / ((-1)^neg * m * Limb^exp) on either side, m # 0
Reciprocals(neg, m, exp) ==
    LET qr == BigDiv(Zeros(4 + Len(m)) \o <<1>>, m)
    IN  Bracket(neg, BigTrim(<<IF qr.rem = <<>> THEN 0 ELSE 1>> \o qr.quot),
                -exp - Len(m) - 5)

\* Math.pow(a, n) for a # 0 and an integer n.  The language leaves the value
\* to the engine, as an approximation of the power, and the engines' pow
\* routines differ in the last bit: they return the double below the power or
\* the double above it, not always the nearer one (the power itself when it
\* is a double).  These are the values a call can return
MathPow(a, n) ==
    IF n >= 0 THEN Bracket(a.neg /\ n % 2 = 1, BigPow(a.mant, n), a.exp * n)
    ELSE Reciprocals(a.neg /\ n % 2 = 1, BigPow(a.mant, -n), -(a.exp * n))

\* a < b, a <= b
FCmp(a, b) ==
    IF a.mant = <<>> THEN (IF b.mant = <<>> THEN 0 ELSE IF b.neg THEN 1 ELSE -1)
    ELSE IF b.mant = <<>> THEN (IF a.neg THEN -1 ELSE 1)
    ELSE IF a.neg # b.neg THEN (IF a.neg THEN -1 ELSE 1)
    ELSE IF a.neg THEN CmpAbs(b, a) ELSE CmpAbs(a, b)

FLess(a, b) == FCmp(a, b) < 0

FLeq(a, b) == FCmp(a, b) <= 0

\* Math.max(a, b), Math.min(a, b)
FMax(a, b) == IF FLess(a, b) THEN b ELSE a

FMin(a, b) == IF FLess(b, a) THEN b ELSE a

\* the integer below |a|, for |a| < 2^31
TruncAbs(a) ==
    IF a.mant = <<>> \/ Top(a) <= 0 THEN 0
    ELSE IF a.exp >= 0 THEN BigInt(Zeros(a.exp) \o a.mant)
    ELSE BigInt(SubSeq(a.mant, 1 - a.exp, Len(a.mant)))

\* Math.floor(a)
Floor(a) ==
    IF ~a.neg THEN TruncAbs(a)
    ELSE IF a.exp >= 0 THEN -TruncAbs(a)
    ELSE -TruncAbs(a) - 1

\* ms / 1000 for an integer ms
Seconds(ms) == FDiv(Double(ms), Double(1000))

\* the double of a number held in tenths, in thousandths
Tenths(n) == FDiv(Double(n), Double(10))

Thousandths(n) == FDiv(Double(n), Double(1000))

\* floor(1000 * a), for reading a double to the thousandth
Milli(a) == Floor(Round(a.neg, BigMulSmall(a.mant, 1000), a.exp))

-----------------------------------------------------------------------------
(* Game logic: GAME_CONFIG and the pure functions *)

INITIAL_LIVES == 5

\* GAME_DURATION, 120 seconds, in ms
GAME_DURATION == 120000

BASE_POINTS == 10

\* MAX_COMBO 5.0, in tenths
MAX_COMBO == 50

\* COMBO_INCREMENT 0.5, in tenths
COMBO_INCREMENT == 5

STREAK_FOR_COMBO == 5

\* DIFFICULTY_RAMP_INTERVAL, 30 seconds, in ms
DIFFICULTY_RAMP_INTERVAL == 30000

\* BASE_FALL_SPEED 100 px/s, in thousandths
BASE_FALL_SPEED == 100000

\* BASE_SPAWN_RATE 1.5 objects/s, in thousandths
BASE_SPAWN_RATE == 1500

\* SPEED_INCREASE_FACTOR 1.3, in tenths
SPEED_INCREASE_FACTOR == 13

\* SPAWN_INCREASE_FACTOR 1.2, in tenths
SPAWN_INCREASE_FACTOR == 12

TapTypes == {"logo", "glitch", "gift", "bomb", "miss"}

\* the cards of GameRNG.magicCard, in its order
Cards == << "time-freeze", "slow-motion", "golden-monad", "extra-time", "logo-highlight",
            "bomb-trap", "shrink-ray", "monad-swarm", "glitch-purge" >>

CardTypes == {Cards[i] : i \in 1..Len(Cards)}

\* an absent optional argument or field
Undefined == "undefined"

\* base * Math.pow(factor, level): the values it can have
Ramp(base, factor, level) == {FMul(base, power) : power \in MathPow(factor, level)}

\* the difficulties of a level, one for each pair of values of the two powers
DifficultyAt(level) ==
    { [level |-> level, fallSpeed |-> fall, spawnRate |-> spawn] :
        fall  \in Ramp(Thousandths(BASE_FALL_SPEED), Tenths(SPEED_INCREASE_FACTOR), level),
        spawn \in Ramp(Thousandths(BASE_SPAWN_RATE), Tenths(SPAWN_INCREASE_FACTOR), level) }

\* the difficulties of the first levels, computed once
Difficulties == [level \in 0..15 |-> DifficultyAt(level)]

\* the level of updateDifficulty: Math.floor(elapsedSeconds / DIFFICULTY_RAMP_INTERVAL)
LevelAt(elapsedMs) == Floor(FDiv(Seconds(elapsedMs), Seconds(DIFFICULTY_RAMP_INTERVAL)))

\* the difficulties of a level, looked up or computed
DifficultyOf(level) ==
    IF level \in DOMAIN Difficulties THEN Difficulties[level] ELSE DifficultyAt(level)

\* updateDifficulty(elapsedSeconds), from the elapsed time in ms: the
\* difficulties it can return
updateDifficulty(elapsedMs) == DifficultyOf(LevelAt(elapsedMs))

\* createInitialGameState(), called at time t
createInitialGameState(t) ==
    [ score         |-> Zero64,
      lives         |-> INITIAL_LIVES,
      timeLeft      |-> Seconds(GAME_DURATION),
      combo         |-> 10,
      streak        |-> 0,
      gameStartTime |-> t,
      difficulty    |-> [ level |-> 0, fallSpeed |-> Thousandths(BASE_FALL_SPEED),
                          spawnRate |-> Thousandths(BASE_SPAWN_RATE) ],
      activeEffects |-> <<>> ]

\* calculatePoints(combo, hasGoldenEffect): BASE_POINTS * combo, tripled if golden
calculatePoints(combo, hasGoldenEffect) ==
    LET basePoints == (BASE_POINTS * combo) \div 10
    IN  IF hasGoldenEffect THEN basePoints * 3 ELSE basePoints

\* a combo that is never capped
updateCombo_NoCap(streak) == 10 + (streak \div STREAK_FOR_COMBO) * COMBO_INCREMENT

\* updateCombo(streak)
updateCombo(streak) ==
    LET comboLevel == streak \div STREAK_FOR_COMBO
        newCombo   == 10 + comboLevel * COMBO_INCREMENT
    IN  Min(newCombo, MAX_COMBO)

\* createMagicCardEffect(cardType), called at time t
createMagicCardEffect(cardType, t) ==
    CASE cardType = "time-freeze"    -> [type |-> "time-freeze", duration |-> 5000, startTime |-> t]
      [] cardType = "slow-motion"    -> [type |-> "slow-motion", duration |-> 7000, value |-> 5, startTime |-> t]
      [] cardType = "golden-monad"   -> [type |-> "golden-monad", duration |-> 0, startTime |-> t]
      [] cardType = "extra-time"     -> [type |-> "extra-time", duration |-> 0, value |-> 100, startTime |-> t]
      [] cardType = "logo-highlight" -> [type |-> "logo-highlight", duration |-> 5000, startTime |-> t]
      [] cardType = "bomb-trap"      -> [type |-> "bomb-trap", duration |-> 0, value |-> -200, startTime |-> t]
      [] cardType = "shrink-ray"     -> [type |-> "shrink-ray", duration |-> 4000, value |-> 5, startTime |-> t]
      [] cardType = "monad-swarm"    -> [type |-> "monad-swarm", duration |-> 3000, startTime |-> t]
      [] cardType = "glitch-purge"   -> [type |-> "glitch-purge", duration |-> 0, value |-> 50, startTime |-> t]
      [] OTHER                       -> [type |-> "time-freeze", duration |-> 5000, startTime |-> t]

\* effects.some(e => e.type === type)
HasEffect(effects, type) == \E i \in 1..Len(effects) : effects[i].type = type

\* effect.value || dflt, in tenths
ValueOr(effect, dflt) ==
    IF "value" \in DOMAIN effect /\ effect.value # 0 THEN effect.value ELSE dflt

\* processTap without the gift case's effect, shared by the variants below
TapOutcome(state, tapType, points, glitchLives, missLives) ==
    CASE tapType = "logo" ->
           [ type |-> "logo", points |-> points,
             newCombo |-> updateCombo(state.streak + 1),
             newStreak |-> state.streak + 1, livesLost |-> 0 ]
      [] tapType = "gift" ->
           [ type |-> "gift", points |-> 0, newCombo |-> state.combo,
             newStreak |-> state.streak, livesLost |-> 0 ]
      [] tapType = "bomb" ->
           [ type |-> "bomb", points |-> 0, newCombo |-> 10, newStreak |-> 0, livesLost |-> 1 ]
      [] tapType = "glitch" ->
           [ type |-> "glitch", points |-> 0, newCombo |-> 10, newStreak |-> 0,
             livesLost |-> glitchLives ]
      [] tapType = "miss" ->
           [ type |-> "miss", points |-> 0, newCombo |-> 10, newStreak |-> 0,
             livesLost |-> missLives ]

\* a variant outcome with the gift's effect attached as processTap attaches it
WithGiftEffect(outcome, giftCardType, t) ==
    IF outcome.type # "gift" THEN outcome
    ELSE [ type |-> "gift", points |-> outcome.points, newCombo |-> outcome.newCombo,
           newStreak |-> outcome.newStreak, livesLost |-> outcome.livesLost,
           effect |-> createMagicCardEffect(
                        IF giftCardType = Undefined THEN "time-freeze" ELSE giftCardType, t) ]

\* processTap with a glitch that costs a life
processTap_GlitchCostsLife(state, tapType, giftCardType, t) ==
    WithGiftEffect(
        TapOutcome(state, tapType,
                   calculatePoints(state.combo, HasEffect(state.activeEffects, "golden-monad")),
                   1, 0),
        giftCardType, t)

\* processTap with a logo's points taken from the combo after the tap
processTap_PointsFromNewCombo(state, tapType, giftCardType, t) ==
    WithGiftEffect(
        TapOutcome(state, tapType,
                   calculatePoints(updateCombo(state.streak + 1),
                                   HasEffect(state.activeEffects, "golden-monad")),
                   0, 0),
        giftCardType, t)

\* processTap(state, tapType, giftCardType), called at time t
processTap(state, tapType, giftCardType, t) ==
    LET hasGoldenEffect == HasEffect(state.activeEffects, "golden-monad")
    IN  CASE tapType = "logo" ->
               LET newStreak == state.streak + 1
               IN  [ type |-> "logo",
                     points |-> calculatePoints(state.combo, hasGoldenEffect),
                     newCombo |-> updateCombo(newStreak),
                     newStreak |-> newStreak,
                     livesLost |-> 0 ]
          [] tapType = "glitch" ->
               [ type |-> "glitch", points |-> 0, newCombo |-> 10, newStreak |-> 0,
                 livesLost |-> 0 ]
          [] tapType = "gift" ->
               [ type |-> "gift", points |-> 0, newCombo |-> state.combo,
                 newStreak |-> state.streak, livesLost |-> 0,
                 effect |-> createMagicCardEffect(
                              IF giftCardType = Undefined THEN "time-freeze"
                              ELSE giftCardType, t) ]
          [] tapType = "bomb" ->
               [ type |-> "bomb", points |-> 0, newCombo |-> 10, newStreak |-> 0,
                 livesLost |-> 1 ]
          [] tapType = "miss" ->
               [ type |-> "miss", points |-> 0, newCombo |-> 10, newStreak |-> 0,
                 livesLost |-> 0 ]

\* effects.filter(e => e.type !== type)
RECURSIVE WithoutType(_, _)
WithoutType(effects, type) ==
    IF effects = <<>> THEN <<>>
    ELSE (IF Head(effects).type = type THEN <<>> ELSE <<Head(effects)>>)
         \o WithoutType(Tail(effects), type)

\* applyTapResult with no floor under the score
applyTapResult_NoFloor(state, result) ==
    LET score1 == FAdd(state.score, Double(result.points))
        lives1 == Max(0, state.lives - result.livesLost)
        base   == [state EXCEPT !.score = score1, !.combo = result.newCombo,
                                !.streak = result.newStreak, !.lives = lives1]
    IN  IF "effect" \notin DOMAIN result THEN base
        ELSE LET effect == result.effect
             IN  IF effect.type = "extra-time"
                 THEN [base EXCEPT !.timeLeft = FAdd(@, Tenths(ValueOr(effect, 0)))]
                 ELSE IF effect.type = "bomb-trap"
                 THEN [base EXCEPT !.score = FAdd(score1, Tenths(ValueOr(effect, 0)))]
                 ELSE IF effect.duration > 0
                 THEN [base EXCEPT !.activeEffects =
                           Append(WithoutType(state.activeEffects, effect.type), effect)]
                 ELSE base

\* a variant of applyTapResult that pushes a lasting effect without removing
\* the one of its type
applyTapResult_Stacking(state, result) ==
    LET score1 == FMax(Zero64, FAdd(state.score, Double(result.points)))
        lives1 == Max(0, state.lives - result.livesLost)
        base   == [state EXCEPT !.score = score1, !.combo = result.newCombo,
                                !.streak = result.newStreak, !.lives = lives1]
    IN  IF "effect" \notin DOMAIN result THEN base
        ELSE LET effect == result.effect
             IN  IF effect.type = "extra-time"
                 THEN [base EXCEPT !.timeLeft = FAdd(@, Tenths(ValueOr(effect, 0)))]
                 ELSE IF effect.type = "bomb-trap"
                 THEN [base EXCEPT !.score =
                           FMax(Zero64, FAdd(score1, Tenths(ValueOr(effect, 0))))]
                 ELSE IF effect.duration > 0
                 THEN [base EXCEPT !.activeEffects = Append(state.activeEffects, effect)]
                 ELSE base

\* applyTapResult(state, result)
applyTapResult(state, result) ==
    LET score1 == FMax(Zero64, FAdd(state.score, Double(result.points)))
        lives1 == Max(0, state.lives - result.livesLost)
        base   == [state EXCEPT !.score = score1, !.combo = result.newCombo,
                                !.streak = result.newStreak, !.lives = lives1]
    IN  IF "effect" \notin DOMAIN result THEN base
        ELSE LET effect == result.effect
             IN  IF effect.type = "extra-time"
                 THEN [base EXCEPT !.timeLeft = FAdd(@, Tenths(ValueOr(effect, 0)))]
                 ELSE IF effect.type = "bomb-trap"
                 THEN [base EXCEPT !.score =
                           FMax(Zero64, FAdd(score1, Tenths(ValueOr(effect, 0))))]
                 ELSE IF effect.duration > 0
                 THEN [base EXCEPT !.activeEffects =
                           Append(WithoutType(state.activeEffects, effect.type), effect)]
                 ELSE base

\* updateActiveEffects(effects, deltaTime)
RECURSIVE updateActiveEffects(_, _)
updateActiveEffects(effects, deltaTime) ==
    IF effects = <<>> THEN <<>>
    ELSE LET e == [Head(effects) EXCEPT !.duration = Max(0, @ - deltaTime)]
         IN  (IF e.duration > 0 \/ e.type = "golden-monad" THEN <<e>> ELSE <<>>)
             \o updateActiveEffects(Tail(effects), deltaTime)

\* updateGameState(state, deltaTime), called at time t: the states it can
\* return, one for each difficulty updateDifficulty can return
updateGameState(state, deltaTime, t) ==
    LET elapsedMs    == t - state.gameStartTime
        isTimeFrozen == HasEffect(state.activeEffects, "time-freeze")
    IN  { [state EXCEPT
             !.timeLeft      = IF isTimeFrozen THEN @
                               ELSE FMax(Zero64, FSub(@, Seconds(deltaTime))),
             !.difficulty    = difficulty,
             !.activeEffects = updateActiveEffects(@, deltaTime)] :
          difficulty \in updateDifficulty(elapsedMs) }

\* isGameOver(state)
isGameOver(state) == FLeq(state.timeLeft, Zero64) \/ state.lives <= 0

-----------------------------------------------------------------------------
(* GameRNG: the draws of the game.  Each operator takes the state of the     *)
(* generator before the draw; the state after it is NextState(state).        *)

\* nextFloat(): next() / 0x100000000, for the value u that next() returns
nextFloat(u) ==
    Canon(FALSE,
          BigTrim(BigMulSmall(<< u[3] % Limb, u[3] \div Limb + (u[2] % (2 ^ 12)) * 4,
                                 u[2] \div (2 ^ 12) >>, 2 ^ 10)),
          -3)

\* nextInt(min, max) for integers min < max below 2^31:
\* Math.floor(nextFloat() * (max - min)) + min, the product being a double
NextInt(state, min, max) ==
    Floor(FMul(nextFloat(NextValue(state)), Double(max - min))) + min

\* spawnX(screenWidth, objectWidth) for integers of px: nextInt(min, max) with
\* min = objectWidth / 2 and max = screenWidth - objectWidth / 2 as they are,
\* halves included: Math.floor(nextFloat() * (max - min)) + min, a double
spawnX(state, screenWidth, objectWidth) ==
    LET min == FDiv(Double(objectWidth), Double(2))
        max == FSub(Double(screenWidth), min)
    IN  FAdd(Double(Floor(FMul(nextFloat(NextValue(state)), FSub(max, min)))), min)

\* nextFloatRange(min, max)
nextFloatRange(state, min, max) ==
    FAdd(FMul(nextFloat(NextValue(state)), FSub(max, min)), min)

\* baseValue * (1 - variation) and baseValue * (1 + variation), variation in tenths
VariedBy(baseValue, variation) ==
    [ min |-> FMul(baseValue, FSub(One64, Tenths(variation))),
      max |-> FMul(baseValue, FAdd(One64, Tenths(variation))) ]

\* spawnDelay(baseDelay) with its default variation 0.3
spawnDelay(state, baseDelay) ==
    nextFloatRange(state, VariedBy(baseDelay, 3).min, VariedBy(baseDelay, 3).max)

\* objectType(): nextFloat() below 0.55, 0.80, 0.85
objectType(state) ==
    LET rand == nextFloat(NextValue(state))
    IN  IF FLess(rand, Thousandths(550)) THEN "logo"
        ELSE IF FLess(rand, Thousandths(800)) THEN "glitch"
        ELSE IF FLess(rand, Thousandths(850)) THEN "gift"
        ELSE "bomb"

\* magicCard(): choice(cards)
magicCard(state) == Cards[NextInt(state, 0, Len(Cards)) + 1]

\* fallSpeed(baseSpeed) with its default variation 0.2
fallSpeed(state, baseSpeed) ==
    nextFloatRange(state, VariedBy(baseSpeed, 2).min, VariedBy(baseSpeed, 2).max)

-----------------------------------------------------------------------------
(* Physics.  Coordinates, sizes and speeds are doubles, in px and px per      *)
(* second.                                                                   *)

\* the GameConfig every caller constructs the manager with, in px
SCREEN_WIDTH == 800

SCREEN_HEIGHT == 600

OBJECT_SIZE == 64

\* the number n of the code, for an integer of px
Px(n) == Double(n)

\* a / 2
Half(a) == FDiv(a, Double(2))

\* createAABB(position, size)
createAABB(position, size) ==
    [x |-> position.x, y |-> position.y, width |-> size.x, height |-> size.y]

\* pointInAABB(point, aabb): the edges belong to the box
pointInAABB(point, aabb) ==
    /\ FLeq(FSub(aabb.x, Half(aabb.width)), point.x)
    /\ FLeq(point.x, FAdd(aabb.x, Half(aabb.width)))
    /\ FLeq(FSub(aabb.y, Half(aabb.height)), point.y)
    /\ FLeq(point.y, FAdd(aabb.y, Half(aabb.height)))

\* v * deltaTime / 1000 for a speed v and a time in ms, both doubles
Travel(v, deltaTime) == FDiv(FMul(v, deltaTime), Double(1000))

\* the position of updateGameObject
movedTo(position, velocity, deltaTime) ==
    [ x |-> FAdd(position.x, Travel(velocity.x, deltaTime)),
      y |-> FAdd(position.y, Travel(velocity.y, deltaTime)) ]

\* updateGameObject(obj, deltaTime), deltaTime a double
updateGameObject(obj, deltaTime) ==
    [obj EXCEPT !.position = movedTo(obj.position, obj.velocity, deltaTime),
                !.hitbox = createAABB(movedTo(obj.position, obj.velocity, deltaTime),
                                      obj.size)]

\* isOffScreen(obj, screenHeight), screenHeight an integer
isOffScreen(obj, screenHeight) ==
    FLess(FAdd(Double(screenHeight), Half(obj.size.y)), obj.position.y)

\* ObjectPool.poolSizes
PoolSizes == [logo |-> 20, glitch |-> 15, gift |-> 10, bomb |-> 15]

\* the pool after construction; issued counts the ids handed out, and stands
\* for the random suffix that makes every id fresh
NewObjectPool ==
    [ pools  |-> [type \in DOMAIN PoolSizes |-> [total |-> PoolSizes[type], inUse |-> 0]],
      issued |-> 0 ]

\* ObjectPool.getObject(type, position, size, fallSpeed, cardType) at time t:
\* the object handed out and the pool afterwards
getObject(pool, type, position, size, speed, cardType, t) ==
    LET entry == pool.pools[type]
        total == IF entry.inUse < entry.total THEN entry.total ELSE entry.total + 1
    IN  [ object |-> [ id        |-> <<type, t, pool.issued + 1>>,
                       type      |-> type,
                       position  |-> position,
                       velocity  |-> [x |-> Zero64, y |-> speed],
                       size      |-> size,
                       hitbox    |-> createAABB(position, size),
                       spawnTime |-> t,
                       isActive  |-> TRUE,
                       cardType  |-> cardType ],
          pool   |-> [ pools  |-> [pool.pools EXCEPT ![type] =
                                      [total |-> total, inUse |-> entry.inUse + 1]],
                       issued |-> pool.issued + 1 ] ]

\* SpawnManager.calculateNextSpawn(): one draw
calculateNextSpawn(sm, state) ==
    [sm EXCEPT !.nextSpawnDelay = spawnDelay(state, FDiv(Double(1000), sm.config.spawnRate))]

\* the object spawnObjects makes from its draws, and the pool afterwards
spawnDrawn(config, type, x, speed, cardType, pool, t) ==
    getObject(pool, type,
              [x |-> x, y |-> Half(Neg(Px(config.objectSize.y)))],
              [x |-> Px(config.objectSize.x), y |-> Px(config.objectSize.y)],
              speed, cardType, t)

\* a variant of spawnOne that draws a card for every object, gift or not
spawnOne_CardAlways(config, state, s1, s2, s3, type, pool, t) ==
    [ rng |-> NextState(s3),
      got |-> spawnDrawn(config, type,
                         spawnX(s1, config.screenWidth, config.objectSize.x),
                         fallSpeed(s2, config.fallSpeed),
                         IF type = "gift" THEN magicCard(s3) ELSE Undefined,
                         pool, t) ]

\* the draws of one object of spawnObjects, s1, s2 and s3 being the states
\* after the first, second and third: type, x, fall speed and, for a gift,
\* the card
spawnOne(config, state, s1, s2, s3, type, pool, t) ==
    [ rng |-> IF type = "gift" THEN NextState(s3) ELSE s3,
      got |-> spawnDrawn(config, type,
                         spawnX(s1, config.screenWidth, config.objectSize.x),
                         fallSpeed(s2, config.fallSpeed),
                         IF type = "gift" THEN magicCard(s3) ELSE Undefined,
                         pool, t) ]

\* one object drawn from the generator in state `state`
spawnFrom(config, state, s1, s2, pool, t) ==
    spawnOne(config, state, s1, s2, NextState(s2), objectType(state), pool, t)

\* the loop of SpawnManager.spawnObjects: count more objects
RECURSIVE spawnLoop(_, _, _, _, _, _)
RECURSIVE spawnNext(_, _, _, _, _)
spawnLoop(count, config, state, pool, t, objects) ==
    IF count = 0 THEN [objects |-> objects, rng |-> state, pool |-> pool]
    ELSE spawnNext(count, config,
                   spawnFrom(config, state, NextState(state), NextState(NextState(state)),
                             pool, t),
                   t, objects)

\* the rest of the loop after one object
spawnNext(count, config, one, t, objects) ==
    spawnLoop(count - 1, config, one.rng, one.got.pool, t, Append(objects, one.got.object))

\* SpawnManager.spawnObjects(spawnRateMultiplier) at time t
spawnObjects(config, state, pool, t, spawnRateMultiplier) ==
    IF spawnRateMultiplier > 2
    THEN spawnLoop(NextInt(state, 2, 4), config, NextState(state), pool, t, <<>>)
    ELSE spawnLoop(1, config, state, pool, t, <<>>)

\* the end of SpawnManager.update once it has spawned: the time is noted
\* and the next delay drawn
afterSpawn(sm, spawned, currentTime) ==
    [ objects      |-> spawned.objects,
      spawnManager |-> calculateNextSpawn([sm EXCEPT !.lastSpawnTime = currentTime],
                                          spawned.rng),
      rng          |-> NextState(spawned.rng),
      pool         |-> spawned.pool ]

\* SpawnManager.update(currentTime, modifiers): the new objects, and the
\* manager, generator and pool afterwards
SpawnManager_update(sm, state, pool, currentTime, modifiers) ==
    IF modifiers.timeFrozen
    THEN [objects |-> <<>>, spawnManager |-> sm, rng |-> state, pool |-> pool]
    ELSE IF FLeq(sm.nextSpawnDelay, Double(currentTime - sm.lastSpawnTime))
    THEN afterSpawn(sm, spawnObjects(sm.config, state, pool, currentTime, modifiers.spawnRate),
                    currentTime)
    ELSE [objects |-> <<>>, spawnManager |-> sm, rng |-> state, pool |-> pool]

\* SpawnManager.updateConfig({fallSpeed, spawnRate})
updateConfig(sm, fallSpeedNew, spawnRateNew) ==
    [sm EXCEPT !.config.fallSpeed = fallSpeedNew, !.config.spawnRate = spawnRateNew]

\* priorityOrder of findTappedObjects
priorityOrder == [gift |-> 4, logo |-> 3, glitch |-> 2, bomb |-> 1]

\* a variant of findTappedObjects that does not sort by priority: the first
\* active object in list order whose hitbox contains the point
findTappedObjects_FirstHit(objects, tapPosition) ==
    LET hit == {i \in 1..Len(objects) :
                  objects[i].isActive /\ pointInAABB(tapPosition, objects[i].hitbox)}
    IN  IF hit = {} THEN 0
        ELSE CHOOSE i \in hit : \A j \in hit : i <= j

\* findTappedObjects(objects, tapPosition): the index in objects of the one
\* object it returns (the first of the highest priority, the sort being
\* stable), or 0 when it returns none
findTappedObjects(objects, tapPosition) ==
    LET hit == {i \in 1..Len(objects) :
                  objects[i].isActive /\ pointInAABB(tapPosition, objects[i].hitbox)}
    IN  IF hit = {} THEN 0
        ELSE CHOOSE i \in hit :
               \A j \in hit :
                  \/ priorityOrder[objects[i].type] > priorityOrder[objects[j].type]
                  \/ /\ priorityOrder[objects[i].type] = priorityOrder[objects[j].type]
                     /\ i <= j

-----------------------------------------------------------------------------
(* getGameModifiers and the state hash *)

\* effects.find(e => e.type === type)?.value || 1.0, in tenths
ModifierValue(effects, type) ==
    IF HasEffect(effects, type)
    THEN ValueOr(effects[CHOOSE i \in 1..Len(effects) :
                            /\ effects[i].type = type
                            /\ \A j \in 1..(i - 1) : effects[j].type # type], 10)
    ELSE 10

\* getGameModifiers(state)
getGameModifiers(state) ==
    [ slowMotion    |-> ModifierValue(state.activeEffects, "slow-motion"),
      shrinkRay     |-> ModifierValue(state.activeEffects, "shrink-ray"),
      logoHighlight |-> HasEffect(state.activeEffects, "logo-highlight"),
      timeFrozen    |-> HasEffect(state.activeEffects, "time-freeze"),
      swarmActive   |-> HasEffect(state.activeEffects, "monad-swarm") ]

\* the integer that a double is: JSON.stringify writes a whole number by the
\* digits of that integer, and the scores hashed are whole
Whole(a) == CHOOSE n \in {Floor(a)} : Double(n) = a

\* the decimal digits of an integer, as character codes
RECURSIVE Digits(_)
Digits(n) ==
    IF n < 0 THEN <<45>> \o Digits(-n)
    ELSE IF n < 10 THEN <<48 + n>>
    ELSE Digits(n \div 10) \o <<48 + (n % 10)>>

\* JSON.stringify({score, lives, timeLeft, combo, streak}), as character codes
StateJSON(data) ==
       <<123, 34, 115, 99, 111, 114, 101, 34, 58>> \o Digits(Whole(data.score))
    \o <<44, 34, 108, 105, 118, 101, 115, 34, 58>> \o Digits(data.lives)
    \o <<44, 34, 116, 105, 109, 101, 76, 101, 102, 116, 34, 58>> \o Digits(data.timeLeft)
    \o <<44, 34, 99, 111, 109, 98, 111, 34, 58>> \o Digits(data.combo)
    \o <<44, 34, 115, 116, 114, 101, 97, 107, 34, 58>> \o Digits(data.streak)
    \o <<125>>

\* one round of calculateStateHash's loop: hash = ((hash << 5) - hash) + char
\* and then hash & hash, which leaves the low 32 bits of 32 * hash - hash + char
\* read as an int32
HashChar(hash, char) ==
    ToInt32(Carry(0, 32 * hash[2] - hash[2], 32 * hash[3] - hash[3] + char))

\* the loop of calculateStateHash over the characters at positions i..last
\* (the test on next makes TLC evaluate it before the loop goes on)
RECURSIVE HashFrom(_, _, _, _)
RECURSIVE HashNext(_, _, _, _)
HashFrom(str, i, last, hash) ==
    IF i > last THEN hash ELSE HashNext(str, i, last, HashChar(hash, str[i]))

HashNext(str, i, last, next) ==
    IF next[3] >= 0 THEN HashFrom(str, i + 1, last, next) ELSE next

\* the whole loop, run over eight characters at a time so that the evaluation
\* stays shallow
RECURSIVE HashLoop(_, _, _)
RECURSIVE HashLoopNext(_, _, _)
HashLoop(str, i, hash) ==
    IF i > Len(str) THEN hash
    ELSE HashLoopNext(str, i + 8, HashFrom(str, i, Min(i + 7, Len(str)), hash))

HashLoopNext(str, i, next) == IF next[3] >= 0 THEN HashLoop(str, i, next) ELSE next

\* calculateStateHash(gameState): the int32 whose base-16 text is returned
calculateStateHash(state) ==
    HashLoop(StateJSON([ score    |-> state.score,
                         lives    |-> state.lives,
                         timeLeft |-> Floor(state.timeLeft),
                         combo    |-> state.combo,
                         streak   |-> state.streak ]), 1, Zero)

-----------------------------------------------------------------------------
(* The finish route's re-simulation *)

\* the loop over tapHistory of the finish route, run at time t: a tap stamped
\* outside [startTime, startTime + 120000] is skipped, any other is processed
\* by its result alone
RECURSIVE Resimulate(_, _, _, _)
Resimulate(tapHistory, state, startTime, t) ==
    IF tapHistory = <<>> THEN state
    ELSE LET tap  == Head(tapHistory)
             next == IF tap.timestamp < startTime \/ tap.timestamp > startTime + 120000
                     THEN state
                     ELSE applyTapResult(state, processTap(state, tap.result, Undefined, t))
         IN  IF next.lives >= 0 THEN Resimulate(Tail(tapHistory), next, startTime, t)
             ELSE next

-----------------------------------------------------------------------------
(* GameStateManager *)

NoSession == [state |-> "NONE"]

NoSpawnManager == [lastSpawnTime |-> 0, nextSpawnDelay |-> Zero64]

NoKV == [isActive |-> FALSE]

NoFinish == [done |-> FALSE]

\* no contract manager has been set
NoContractManager == [attached |-> FALSE, promises |-> <<>>]

NoCall == [op |-> "none", returned |-> Undefined, assigned |-> <<>>]

NoTap == [type |-> "none"]

NoRisk == [riskLevel |-> "none"]

NoCheck == [fn |-> "none"]

NoAntiCheat == [results |-> <<>>, risk |-> NoRisk, last |-> NoCheck]

\* new SpawnManager(rng, config): the constructor draws the first delay
SpawnManager(state, config) ==
    calculateNextSpawn([config |-> config, lastSpawnTime |-> 0, nextSpawnDelay |-> Zero64],
                       state)

\* initializeSession(sessionId, seed) at time t: the session it creates, with
\* its game state, spawn manager and generator
initializeSession(sessionId, seed, t) ==
    LET state0 == CreateSessionRNG(sessionId, NumOfInt(seed))
        g0     == createInitialGameState(t)
    IN  [ rng          |-> [ seed |-> SessionSeed(sessionId, NumOfInt(seed)),
                             state |-> NextState(state0), out |-> <<>>, sets |-> 0 ],
          gameState    |-> g0,
          spawnManager |-> SpawnManager(state0,
                             [ screenWidth  |-> SCREEN_WIDTH,
                               screenHeight |-> SCREEN_HEIGHT,
                               objectSize   |-> [x |-> OBJECT_SIZE, y |-> OBJECT_SIZE],
                               fallSpeed    |-> g0.difficulty.fallSpeed,
                               spawnRate    |-> g0.difficulty.spawnRate ]),
          session      |-> [ id             |-> sessionId,
                             seed           |-> seed,
                             state          |-> "READY",
                             objects        |-> <<>>,
                             lastUpdateTime |-> t,
                             countdownTime  |-> 3000,
                             isPaused       |-> FALSE,
                             tapHistory     |-> <<>>,
                             actions        |-> <<>>,
                             stateHash      |-> calculateStateHash(g0) ] ]

\* the session record the start route stores, for a session started at time t
storeSession(sessionId, seed, t) ==
    LET initialGameState == createInitialGameState(t)
    IN  [ id             |-> sessionId,
          seed           |-> seed,
          startTime      |-> t,
          isActive       |-> TRUE,
          gameState      |-> [ timeRemaining |-> initialGameState.timeLeft,
                               lives         |-> initialGameState.lives,
                               score         |-> initialGameState.score,
                               combo         |-> initialGameState.combo,
                               streak        |-> initialGameState.streak,
                               activeCards   |-> <<>> ],
          lastActionTime |-> t,
          totalActions   |-> 0 ]

\* objects.map(obj => updateGameObject(obj, step)).filter(active and on screen)
moveObjects(objects, step, screenHeight) ==
    SelectSeq([i \in 1..Len(objects) |-> updateGameObject(objects[i], step)],
              LAMBDA obj : obj.isActive /\ ~isOffScreen(obj, screenHeight))

\* objects.map(obj => ({...obj, size}))
resizeObjects(objects, size) ==
    [i \in 1..Len(objects) |-> [objects[i] EXCEPT !.size = size]]

\* updateGame after the spawn manager's update `up`: the new objects are
\* pushed, the objects moved unless time is frozen, and resized under shrink-ray
updateObjects(objects, up, modifiers, deltaTime, config) ==
    LET pushed == objects \o up.objects
        moved  == IF modifiers.timeFrozen THEN pushed
                  ELSE moveObjects(pushed,
                                   FMul(Double(deltaTime), Tenths(modifiers.slowMotion)),
                                   config.screenHeight)
    IN  IF modifiers.shrinkRay = 10 THEN moved
        ELSE resizeObjects(moved,
                           [x |-> FMul(Px(config.objectSize.x), Tenths(modifiers.shrinkRay)),
                            y |-> FMul(Px(config.objectSize.y), Tenths(modifiers.shrinkRay))])

\* updateGame once the spawn manager's update `up` has run
updateGameSpawned(sess, gs1, up, modifiers, deltaTime) ==
    [ session      |-> [sess EXCEPT
                          !.objects   = updateObjects(sess.objects, up, modifiers, deltaTime,
                                                      up.spawnManager.config),
                          !.state     = IF isGameOver(gs1) THEN "FINISHED" ELSE @,
                          !.stateHash = calculateStateHash(gs1)],
      gameState    |-> gs1,
      spawnManager |-> up.spawnManager,
      rng          |-> up.rng,
      pool         |-> up.pool,
      ended        |-> isGameOver(gs1) ]

\* updateGame once updateGameState has made gs1 and getGameModifiers its modifiers
updateGameWith(sess, gs1, modifiers, sm, rngState, pool, deltaTime, t) ==
    updateGameSpawned(sess, gs1,
        SpawnManager_update(
            updateConfig(sm, FMul(gs1.difficulty.fallSpeed, Tenths(modifiers.slowMotion)),
                         FMul(gs1.difficulty.spawnRate,
                              Double(IF modifiers.swarmActive THEN 3 ELSE 1))),
            rngState, pool, t,
            [ spawnRate  |-> IF modifiers.swarmActive THEN 3 ELSE 1,
              timeFrozen |-> modifiers.timeFrozen ]),
        modifiers, deltaTime)

\* updateGame once updateGameState has made gs1
updateGameFrom(sess, gs1, sm, rngState, pool, deltaTime, t) ==
    updateGameWith(sess, gs1, getGameModifiers(gs1), sm, rngState, pool, deltaTime, t)

\* updateGame(deltaTime) run at time t on a session sess with game state gs,
\* spawn manager sm, generator state rngState and object pool: what each of
\* them is afterwards, and whether endGame() was called, for each state
\* updateGameState can return
updateGame(sess, gs, sm, rngState, pool, deltaTime, t) ==
    { updateGameFrom(sess, gs1, sm, rngState, pool, deltaTime, t) :
        gs1 \in updateGameState(gs, deltaTime, t) }

\* animationFrameId: null, the id of a callback that requestAnimationFrame
\* has yet to run, and the id of a callback that has run
NoFrame == "null"

Requested == "requested"

Stale == "stale"

\* what a method of GameStateManager leaves behind: the manager's fields
\* (`this`), the value returned, and the values it assigned to session.state,
\* in order
Done(this, returned, assigned) ==
    [this |-> this, returned |-> returned, assigned |-> assigned, tap |-> NoTap]

\* startCountdown() at time t; startGameLoop() schedules the first frame
startCountdown(this, t) ==
    IF this.session.state # "READY" THEN Done(this, Undefined, <<>>)
    ELSE Done([this EXCEPT !.session = [@ EXCEPT !.countdownTime = 3000,
                                                 !.state = "COUNTDOWN",
                                                 !.lastUpdateTime = t],
                           !.animationFrameId = Requested],
              Undefined, <<"COUNTDOWN">>)

\* startGame() at time t
startGame(this, t) ==
    IF this.session.state # "COUNTDOWN" THEN Done(this, Undefined, <<>>)
    ELSE Done([this EXCEPT !.session = [@ EXCEPT !.state = "RUNNING", !.lastUpdateTime = t],
                           !.gameState = [@ EXCEPT !.gameStartTime = t]],
              Undefined, <<"RUNNING">>)

\* a variant of pauseGame that pauses a session in any state
pauseGame_AnyState(this) ==
    IF this.session.state = "NONE" THEN Done(this, Undefined, <<>>)
    ELSE Done([this EXCEPT !.session = [@ EXCEPT !.state = "PAUSED", !.isPaused = TRUE]],
              Undefined, <<"PAUSED">>)

\* a variant of pauseGame that also cancels the frame that was requested
pauseGame_CancelsFrame(this) ==
    IF this.session.state # "RUNNING" THEN Done(this, Undefined, <<>>)
    ELSE Done([this EXCEPT !.session = [@ EXCEPT !.state = "PAUSED", !.isPaused = TRUE],
                           !.animationFrameId = NoFrame],
              Undefined, <<"PAUSED">>)

\* pauseGame()
pauseGame(this) ==
    IF this.session.state # "RUNNING" THEN Done(this, Undefined, <<>>)
    ELSE Done([this EXCEPT !.session = [@ EXCEPT !.state = "PAUSED", !.isPaused = TRUE]],
              Undefined, <<"PAUSED">>)

\* a variant of resumeGame that leaves lastUpdateTime as it was
resumeGame_NoStamp(this, t) ==
    IF this.session.state # "PAUSED" THEN Done(this, Undefined, <<>>)
    ELSE Done([this EXCEPT !.session = [@ EXCEPT !.state = "RUNNING", !.isPaused = FALSE]],
              Undefined, <<"RUNNING">>)

\* resumeGame() at time t
resumeGame(this, t) ==
    IF this.session.state # "PAUSED" THEN Done(this, Undefined, <<>>)
    ELSE Done([this EXCEPT !.session = [@ EXCEPT !.state = "RUNNING", !.isPaused = FALSE,
                                                 !.lastUpdateTime = t]],
              Undefined, <<"RUNNING">>)

\* setContractManager(contractManager): the promises made so far are those of
\* the manager's calls and stay
setContractManager(cm) == [cm EXCEPT !.attached = TRUE]

\* cleanup(): cancelAnimationFrame if a frame id is held, this.session = null;
\* the game state, the generator and the spawn manager are fields of the
\* session and go with it
cleanup(this) ==
    Done([this EXCEPT !.session = NoSession,
                      !.gameState = createInitialGameState(0),
                      !.spawnManager = NoSpawnManager,
                      !.rng = <<0, 0, 1>>,
                      !.animationFrameId = NoFrame],
         Undefined, <<>>)

\* a variant of showSummary that also empties the tap history
showSummary_ClearsHistory(this) ==
    IF this.session.state # "FINISHED" THEN Done(this, Undefined, <<>>)
    ELSE Done([this EXCEPT !.session = [@ EXCEPT !.state = "SUMMARY", !.tapHistory = <<>>]],
              Undefined, <<"SUMMARY">>)

\* showSummary()
showSummary(this) ==
    IF this.session.state # "FINISHED" THEN Done(this, Undefined, <<>>)
    ELSE Done([this EXCEPT !.session = [@ EXCEPT !.state = "SUMMARY"]],
              Undefined, <<"SUMMARY">>)

\* a call of an async method of the contract manager, made only when one is
\* set (this.contractManager is truthy): the promise it returns is pending,
\* and the caller goes on without awaiting it
Promised(cm, method, args) ==
    IF cm.attached
    THEN [cm EXCEPT !.promises = Append(@, [method |-> method, args |-> args,
                                            state |-> "pending"])]
    ELSE cm

\* this.contractManager.recordGameAction(sessionId, actionType, value)
recordGameAction(cm, sessionId, actionType, value) ==
    Promised(cm, "recordGameAction", <<sessionId, actionType, value>>)

\* this.contractManager.finishGameSession(session), which reads the score and
\* the number of actions
finishGameSession(cm, sess, gs) ==
    Promised(cm, "finishGameSession", <<sess.id, gs.score, Len(sess.actions)>>)

\* a variant of handleTapApplied that leaves the tapped object active
handleTapApplied_KeepsActive(this, position, tapTime, target, tapResult, giftCardType, result, applied) ==
    [ this     |-> [this EXCEPT
                      !.gameState = applied,
                      !.contractManager =
                         IF tapResult # "miss"
                         THEN recordGameAction(@, this.session.id, tapResult, result.points)
                         ELSE @,
                      !.session =
                         [@ EXCEPT
                            !.tapHistory = Append(@, [ timestamp |-> tapTime,
                                                       position  |-> position,
                                                       targetId  |-> IF target = 0 THEN Undefined
                                                                     ELSE this.session.objects[target].id,
                                                       result    |-> tapResult ]),
                            !.actions    = Append(@, [type |-> tapResult, timestamp |-> tapTime]),
                            !.stateHash  = calculateStateHash(applied)]],
      returned |-> tapResult # "miss",
      assigned |-> <<>>,
      tap      |-> [type |-> tapResult, card |-> giftCardType, result |-> result] ]

\* a variant of handleTapApplied that records no TapEvent for a miss
handleTapApplied_HitsOnly(this, position, tapTime, target, tapResult, giftCardType, result, applied) ==
    [ this     |-> [this EXCEPT
                      !.gameState = applied,
                      !.contractManager =
                         IF tapResult # "miss"
                         THEN recordGameAction(@, this.session.id, tapResult, result.points)
                         ELSE @,
                      !.session =
                         [@ EXCEPT
                            !.objects    = IF target = 0 THEN @
                                           ELSE [@ EXCEPT ![target].isActive = FALSE],
                            !.tapHistory = IF target = 0 THEN @ ELSE Append(@, [ timestamp |-> tapTime,
                                                       position  |-> position,
                                                       targetId  |-> IF target = 0 THEN Undefined
                                                                     ELSE this.session.objects[target].id,
                                                       result    |-> tapResult ]),
                            !.actions    = Append(@, [type |-> tapResult, timestamp |-> tapTime]),
                            !.stateHash  = calculateStateHash(applied)]],
      returned |-> tapResult # "miss",
      assigned |-> <<>>,
      tap      |-> [type |-> tapResult, card |-> giftCardType, result |-> result] ]

\* handleTap once processTap has made `result` and applyTapResult `applied`
\* for the object at index target (0: none)
handleTapApplied(this, position, tapTime, target, tapResult, giftCardType, result, applied) ==
    [ this     |-> [this EXCEPT
                      !.gameState = applied,
                      !.contractManager =
                         IF tapResult # "miss"
                         THEN recordGameAction(@, this.session.id, tapResult, result.points)
                         ELSE @,
                      !.session =
                         [@ EXCEPT
                            !.objects    = IF target = 0 THEN @
                                           ELSE [@ EXCEPT ![target].isActive = FALSE],
                            !.tapHistory = Append(@, [ timestamp |-> tapTime,
                                                       position  |-> position,
                                                       targetId  |-> IF target = 0 THEN Undefined
                                                                     ELSE this.session.objects[target].id,
                                                       result    |-> tapResult ]),
                            !.actions    = Append(@, [type |-> tapResult, timestamp |-> tapTime]),
                            !.stateHash  = calculateStateHash(applied)]],
      returned |-> tapResult # "miss",
      assigned |-> <<>>,
      tap      |-> [type |-> tapResult, card |-> giftCardType, result |-> result] ]

\* handleTap once the tap result and the gift's card type are known
handleTapAs(this, position, tapTime, target, tapResult, giftCardType, result) ==
    handleTapApplied(this, position, tapTime, target, tapResult, giftCardType, result,
                     applyTapResult(this.gameState, result))

\* handleTap once findTappedObjects has returned the object at index target
handleTapOn(this, position, tapTime, target, tapResult, giftCardType) ==
    handleTapAs(this, position, tapTime, target, tapResult, giftCardType,
                processTap(this.gameState, tapResult, giftCardType, tapTime))

\* a variant of handleTap that also processes a tap while the game is paused
handleTap_WhilePaused(this, position, tapTime) ==
    IF this.session.state \notin {"RUNNING", "PAUSED"} THEN Done(this, FALSE, <<>>)
    ELSE LET target == findTappedObjects(this.session.objects, position)
         IN  IF target = 0
             THEN handleTapOn(this, position, tapTime, 0, "miss", Undefined)
             ELSE handleTapOn(this, position, tapTime, target,
                              this.session.objects[target].type,
                              this.session.objects[target].cardType)

\* a variant of handleTap that processes no tap while a promise of the
\* contract manager is pending
handleTap_AwaitsPending(this, position, tapTime) ==
    IF \E i \in 1..Len(this.contractManager.promises) :
          this.contractManager.promises[i].state = "pending"
    THEN Done(this, FALSE, <<>>)
    ELSE IF this.session.state # "RUNNING" THEN Done(this, FALSE, <<>>)
    ELSE LET target == findTappedObjects(this.session.objects, position)
         IN  IF target = 0
             THEN handleTapOn(this, position, tapTime, 0, "miss", Undefined)
             ELSE handleTapOn(this, position, tapTime, target,
                              this.session.objects[target].type,
                              this.session.objects[target].cardType)

\* handleTap(position) at time tapTime
handleTap(this, position, tapTime) ==
    IF this.session.state # "RUNNING" THEN Done(this, FALSE, <<>>)
    ELSE LET target == findTappedObjects(this.session.objects, position)
         IN  IF target = 0
             THEN handleTapOn(this, position, tapTime, 0, "miss", Undefined)
             ELSE handleTapOn(this, position, tapTime, target,
                              this.session.objects[target].type,
                              this.session.objects[target].cardType)

\* the frame callback once updateGame has run: endGame() clears the frame,
\* otherwise the next one is requested
updateRan(run, assigned, cm) ==
    [ this     |-> [ session          |-> run.session,
                     gameState        |-> run.gameState,
                     spawnManager     |-> run.spawnManager,
                     rng              |-> run.rng,
                     pool             |-> run.pool,
                     animationFrameId |-> IF run.ended THEN NoFrame ELSE Requested,
                     contractManager  |-> IF run.ended
                                          THEN finishGameSession(cm, run.session,
                                                                 run.gameState)
                                          ELSE cm ],
      returned |-> Undefined,
      assigned |-> IF run.ended THEN Append(assigned, "FINISHED") ELSE assigned,
      tap      |-> NoTap ]

\* the frame callback `update` of startGameLoop, run at time currentTime:
\* what it can leave behind, one outcome for each one of updateGame
update(this, currentTime) ==
    LET deltaTime == currentTime - this.session.lastUpdateTime
        stamped   == [this.session EXCEPT !.lastUpdateTime = currentTime]
        counted   == IF this.session.state = "COUNTDOWN"
                     THEN [stamped EXCEPT !.countdownTime = @ - deltaTime]
                     ELSE stamped
        starts    == this.session.state = "COUNTDOWN" /\ counted.countdownTime <= 0
        started   == IF starts THEN [counted EXCEPT !.state = "RUNNING"] ELSE counted
        gs0       == IF starts THEN [this.gameState EXCEPT !.gameStartTime = currentTime]
                     ELSE this.gameState
        assigned  == IF starts THEN <<"RUNNING">> ELSE <<>>
    IN  IF started.state = "RUNNING" /\ ~started.isPaused
        THEN { updateRan(run, assigned, this.contractManager) :
                 run \in updateGame(started, gs0, this.spawnManager, this.rng, this.pool,
                                    deltaTime, currentTime) }
        ELSE {Done([this EXCEPT !.session = started, !.gameState = gs0,
                               !.animationFrameId =
                                  IF started.state \in {"COUNTDOWN", "RUNNING", "PAUSED"}
                                  THEN Requested
                                  ELSE IF @ = Requested THEN Stale ELSE @],
                   Undefined, assigned)}

-----------------------------------------------------------------------------
(* Anti-cheat validation (lib/anti-cheat.ts) and the action route's timing   *)
(* check.  A ValidationResult is [isValid, severity] with a reason when it   *)
(* failed; the reason's text is its first component and the numbers the      *)
(* text is formatted with follow.                                            *)

MIN_TAP_INTERVAL == 50

\* 5.0, in tenths
MAX_COMBO_MULTIPLIER == 50

MAX_GAME_DURATION == 120000

POSITION_BOUNDS == [minX |-> 0, maxX |-> 800, minY |-> 0, maxY |-> 600]

\* MIN_TAP_INTERVAL of the action route
ROUTE_MIN_TAP_INTERVAL == 50

Passed == [isValid |-> TRUE, severity |-> "low"]

Failed(reason, severity) == [isValid |-> FALSE, reason |-> reason, severity |-> severity]

\* validateTapTiming(currentTimestamp, lastTimestamp)
validateTapTiming(currentTimestamp, lastTimestamp) ==
    LET timeDiff == currentTimestamp - lastTimestamp
    IN  IF timeDiff < MIN_TAP_INTERVAL
        THEN Failed(<<"Tap too fast", timeDiff, MIN_TAP_INTERVAL>>, "high")
        ELSE Passed

\* validateTapPosition(position), the position in px
validateTapPosition(position) ==
    IF \/ position.x < POSITION_BOUNDS.minX \/ position.x > POSITION_BOUNDS.maxX
       \/ position.y < POSITION_BOUNDS.minY \/ position.y > POSITION_BOUNDS.maxY
    THEN Failed(<<"Position out of bounds", position.x, position.y>>, "medium")
    ELSE Passed

\* Math.min(1.0 + Math.floor(streak / 5) * 0.5, MAX_COMBO_MULTIPLIER) as a
\* double; Math.floor(streak / 5) is the quotient rounded down
expectedCombo(streak) ==
    FMin(FAdd(Double(1), FMul(Double(streak \div 5), Tenths(5))),
         Tenths(MAX_COMBO_MULTIPLIER))

\* Math.abs(a) on a double
Abs(a) == [a EXCEPT !.neg = FALSE]

\* the number a double stands for in tenths, rounded down, as the reason's
\* text shows a multiple of 0.5
InTenths(a) == Floor(FMul(a, Double(10)))

\* validateGameState(gameState): gameState.combo is held in tenths and is the
\* double nearest to that many tenths; the comparisons are made on doubles
validateGameState(state) ==
    IF FLess(Tenths(MAX_COMBO_MULTIPLIER), Tenths(state.combo))
    THEN Failed(<<"Combo multiplier exceeds limit", state.combo, MAX_COMBO_MULTIPLIER>>, "high")
    ELSE IF FLess(state.score, Zero64) \/ state.lives < 0 \/ FLess(Tenths(state.combo), Double(1))
    THEN Failed(<<"Invalid game state values", state.score, state.lives, state.combo>>, "high")
    ELSE IF FLess(Tenths(1), Abs(FSub(Tenths(state.combo), expectedCombo(state.streak))))
    THEN Failed(<<"Combo/streak mismatch", state.combo,
                  InTenths(expectedCombo(state.streak)), state.streak>>, "medium")
    ELSE Passed

\* validateSessionTiming(actionTimestamp, sessionStartTime)
validateSessionTiming(actionTimestamp, sessionStartTime) ==
    LET sessionDuration == actionTimestamp - sessionStartTime
    IN  IF sessionDuration < 0
        THEN Failed(<<"Action timestamp before session start">>, "high")
        ELSE IF sessionDuration > MAX_GAME_DURATION
        THEN Failed(<<"Action after maximum game duration", sessionDuration>>, "medium")
        ELSE Passed

\* results.filter(result => !result.isValid && result.severity === severity).length
FailedWith(validationResults, severity) ==
    Len(SelectSeq(validationResults,
                  LAMBDA result : ~result.isValid /\ result.severity = severity))

\* results.filter(result => !result.isValid)
failedValidations(validationResults) ==
    SelectSeq(validationResults, LAMBDA result : ~result.isValid)

\* the empty string, as a reason
EmptyReason == <<"">>

\* failedValidations.map(result => result.reason || 'Unknown validation error'):
\* a reason that is missing and one that is the empty string are both replaced
Reasons(failed) ==
    [i \in 1..Len(failed) |->
        IF "reason" \in DOMAIN failed[i] /\ failed[i].reason # EmptyReason
        THEN failed[i].reason
        ELSE <<"Unknown validation error">>]

\* assessRisk(validationResults)
assessRisk(validationResults) ==
    LET failed         == failedValidations(validationResults)
        highSeverity   == FailedWith(validationResults, "high")
        mediumSeverity == FailedWith(validationResults, "medium")
    IN  IF highSeverity > 0
        THEN [riskLevel |-> "high", shouldReject |-> TRUE, reasons |-> Reasons(failed)]
        ELSE IF mediumSeverity > 2
        THEN [riskLevel |-> "high", shouldReject |-> TRUE, reasons |-> Reasons(failed)]
        ELSE IF mediumSeverity > 0 \/ Len(failed) > 3
        THEN [riskLevel |-> "medium", shouldReject |-> mediumSeverity > 1,
              reasons |-> Reasons(failed)]
        ELSE [riskLevel |-> "low", shouldReject |-> FALSE, reasons |-> Reasons(failed)]

\* the action route's timing check on one action: TRUE when it is rejected
actionTooFast(timestamp, lastActionTime) ==
    timestamp <= lastActionTime + ROUTE_MIN_TAP_INTERVAL

-----------------------------------------------------------------------------
(* The action route and the SessionAPI client's batching *)

\* MAX_ACTIONS_PER_BATCH of the action route
MAX_ACTIONS_PER_BATCH == 20

\* ACTION_BATCH_INTERVAL of the action route, in ms
ACTION_BATCH_INTERVAL == 1500

\* the tolerance the action route takes off ACTION_BATCH_INTERVAL, in ms
BATCH_TOLERANCE == 200

\* BATCH_INTERVAL of SessionAPI, in ms
BATCH_INTERVAL == 1500

\* MAX_BUFFER_SIZE of SessionAPI
MAX_BUFFER_SIZE == 20

\* { ...existing, ...updates }
Merged(existing, updates) ==
    [f \in DOMAIN existing \cup DOMAIN updates |->
        IF f \in DOMAIN updates THEN updates[f] ELSE existing[f]]

\* the loop of the action route over the actions of a batch: the game state,
\* the validated actions, the number rejected and the last action time
RECURSIVE validateActions(_, _, _, _, _)
validateActions(actions, startTime, t, lastActionTime, sofar) ==
    IF actions = <<>> THEN [sofar EXCEPT !.lastActionTime = lastActionTime]
    ELSE LET action == Head(actions)
         IN  IF \/ actionTooFast(action.timestamp, lastActionTime)
                \/ action.timestamp < startTime
                \/ action.timestamp > startTime + 120000
                \/ ~validateTapPosition(action.position).isValid
             THEN validateActions(Tail(actions), startTime, t, lastActionTime,
                                  [sofar EXCEPT !.rejected = @ + 1])
             ELSE validateActions(Tail(actions), startTime, t, action.timestamp,
                    [sofar EXCEPT
                       !.gameState = applyTapResult(@, processTap(@, action.type, Undefined, t)),
                       !.validated = Append(@, action)])

\* the updates the action route passes to updateSession
actionUpdates(session0, done, t) ==
    [ gameState      |-> [ timeRemaining |-> FMax(Zero64, done.gameState.timeLeft),
                           lives         |-> done.gameState.lives,
                           score         |-> done.gameState.score,
                           combo         |-> done.gameState.combo,
                           streak        |-> done.gameState.streak,
                           activeCards   |-> session0.gameState.activeCards ],
      lastActionTime |-> t,
      totalActions   |-> session0.totalActions + Len(done.validated) ]

\* the action route up to its updateSession call, on the session it read, at
\* time t: the status of the response, and for 200 the validated actions and
\* the updates
actionChecked(session0, actions, t) ==
    IF Len(actions) > MAX_ACTIONS_PER_BATCH
    THEN [status |-> 429, error |-> "Too many actions in batch"]
    ELSE IF ~session0.isActive
    THEN [status |-> 400, error |-> "Session is not active"]
    ELSE IF t - session0.lastActionTime < ACTION_BATCH_INTERVAL - BATCH_TOLERANCE
    THEN [status |-> 429, error |-> "Actions submitted too frequently"]
    ELSE LET done == validateActions(actions, session0.startTime, t,
                                     session0.lastActionTime,
                                     [ gameState      |-> createInitialGameState(t),
                                       validated      |-> <<>>,
                                       rejected       |-> 0,
                                       lastActionTime |-> session0.lastActionTime ])
         IN  [ status    |-> 200,
               validated |-> done.validated,
               rejected  |-> done.rejected,
               updates   |-> actionUpdates(session0, done, t) ]

\* the finish route up to its updateSession call, on the session it read, at
\* time t: the status of the response, and for 200 the final score and the
\* updates
finishChecked(session0, tapHistory, t) ==
    IF ~session0.isActive
    THEN [status |-> 400, error |-> "Session already finished"]
    ELSE LET final == Resimulate(tapHistory, createInitialGameState(t),
                                 session0.startTime, t)
         IN  [ status     |-> 200,
               finalScore |-> final.score,
               updates    |-> [ isActive     |-> FALSE,
                                gameState    |-> [ timeRemaining |-> FMax(Zero64, final.timeLeft),
                                                   lives         |-> final.lives,
                                                   score         |-> final.score,
                                                   combo         |-> final.combo,
                                                   streak        |-> final.streak,
                                                   activeCards   |-> <<>> ],
                                totalActions |-> Len(tapHistory) ] ]

-----------------------------------------------------------------------------
(* Bounds *)

\* draws made from each generator
MaxDraws == 10

\* taps made in one behaviour
MaxTaps == 3

\* taps made in one behaviour of the logo and bomb scenario
MaxScenarioTaps == 7

\* frames run in one behaviour
MaxTicks == 2

\* setState calls made on a generator
MaxSetStates == 1

\* length of the logo run a behaviour may start after
WarmStreak == 42

\* number of bomb taps a behaviour may start after
WarmBombs == 4

\* frames run in one session
MaxFrames == 3

\* handleTap calls made in one session
MaxSessionTaps == 2

\* frames run in a session in which every bomb is tapped
MaxBombFrames == 6

\* handleTap calls made in a session in which every bomb is tapped
MaxBombTaps == 6

\* objects in the live list when overlapping objects are tapped
MaxOverlap == 3

\* handleTap calls made on overlapping objects
MaxOverlapTaps == 2

\* frames run in a session in which gifts are tapped
MaxCardFrames == 9

\* handleTap calls made in a session in which gifts are tapped
MaxCardTaps == 2

\* frames run in a session played with a contract manager
MaxChainFrames == 3

\* handleTap calls made in a session played with a contract manager
MaxChainTaps == 2

\* validation results gathered before assessRisk is called
MaxFindings == 4

\* frames run on one manager whose calls are followed
MaxCallFrames == 2

\* times the page is hidden while a manager whose calls are followed is paused
MaxCallHidden == 1

\* taps processed in one session whose calls are followed
MaxCallTaps == 1

\* sessions initialized on one manager whose calls are followed
MaxCallSessions == 2

\* update calls made on one spawn manager
MaxBursts == 3

\* frames run in a session that is paused and resumed
MaxPauseFrames == 5

\* handleTap calls made in a session that is paused and resumed
MaxPauseTaps == 1

\* frames that run while a session that is played to its end is paused
MaxLivePausedFrames == 1

\* actions the client records in one session
MaxActions == 21

\* times the client's batch timer fires in one session
MaxBatchTimers == 4

\* requests of one client the server has not answered yet
MaxInFlight == 2

\* finishSession calls made on one client
MaxFinishSessions == 1

-----------------------------------------------------------------------------
(* Two generators, drawn from independently *)

One == <<0, 0, 1>>

\* 2^32
TwoTo32 == <<1, 0, 0>>

\* session ids as character codes: "", "s1", "ab"
SessionIds == { <<>>, <<115, 49>>, <<97, 98>> }

Timestamps == { Zero, NumOfInt(1000000), TwoTo32 }

\* seeds handed to the constructor: literal ones and createSessionRNG's
Seeds ==
    { Zero, One, NumOfInt(12345), NumOfInt(-5), TwoTo32 }
    \cup { SessionSeed(id, ts) : id \in SessionIds, ts \in Timestamps }

NoScript == [logos |-> 0, bomb |-> FALSE, off |-> TRUE]

\* new XORShift32(seed)
NewGenerator(seed) ==
    [seed |-> seed, state |-> XORShift32(seed), out |-> <<>>, sets |-> 0]

\* g.next(), its return value kept in g.out
Draw(g) == [g EXCEPT !.state = NextState(g.state), !.out = Append(g.out, NextValue(g.state))]

IdleSession ==
    /\ session = NoSession
    /\ spawnManager = NoSpawnManager
    /\ gameObjectPool = NewObjectPool
    /\ animationFrameId = NoFrame
    /\ kv = NoKV
    /\ finish = NoFinish
    /\ call = NoCall
    /\ antiCheat = NoAntiCheat
    /\ contractManager = NoContractManager

IdleLogic ==
    /\ IdleSession
    /\ gameState = createInitialGameState(0)
    /\ now = 0
    /\ lastTap = NoTap
    /\ script = NoScript
    /\ taps = 0
    /\ ticks = 0

InitRNG ==
    /\ \E s1 \in Seeds : rng1 = NewGenerator(s1)
    /\ \E s2 \in Seeds : rng2 = NewGenerator(s2)
    /\ IdleLogic

Next1 ==
    /\ Len(rng1.out) < MaxDraws
    /\ rng1' = Draw(rng1)
    /\ UNCHANGED <<rng2, gameState, now, lastTap, script, taps, ticks, sessionVars>>

Next2 ==
    /\ Len(rng2.out) < MaxDraws
    /\ rng2' = Draw(rng2)
    /\ UNCHANGED <<rng1, gameState, now, lastTap, script, taps, ticks, sessionVars>>

\* rng1.setState(v)
SetState1 ==
    /\ rng1.sets < MaxSetStates
    /\ \E v \in {Zero, One, NumOfInt(-5), TwoTo32} :
         rng1' = [rng1 EXCEPT !.state = SetState(v), !.sets = @ + 1]
    /\ UNCHANGED <<rng2, gameState, now, lastTap, script, taps, ticks, sessionVars>>

NextRNG == Next1 \/ Next2

SpecRNG == InitRNG /\ [][NextRNG]_vars

InitRNGState ==
    /\ \E s1 \in Seeds : rng1 = NewGenerator(s1)
    /\ rng2 = NewGenerator(One)
    /\ IdleLogic

NextRNGState == Next1 \/ SetState1

SpecRNGState == InitRNGState /\ [][NextRNGState]_vars

-----------------------------------------------------------------------------
(* The pure game logic, driven by arbitrary taps and frames *)

\* frame deltas in ms: a short frame, a long one, a tab left in the background
TickDeltas == {1000, 3000, 60000}

\* the hand-made result of the unit test "should not allow negative score"
CraftedResults ==
    { [type |-> "logo", points |-> -100, newCombo |-> 10, newStreak |-> 0, livesLost |-> 0] }

\* state after k taps of one type on state (the test on next makes TLC
\* evaluate it before the recursive call)
RECURSIVE TapRun(_, _, _)
TapRun(state, type, k) ==
    IF k = 0 THEN state
    ELSE LET next == applyTapResult(state, processTap(state, type, Undefined, 0))
         IN  IF next.lives >= 0 THEN TapRun(next, type, k - 1) ELSE next

\* the script after one more tap of the given type
ScriptAfter(sc, type) ==
    IF sc.off \/ sc.bomb THEN NoScript
    ELSE IF type = "logo" THEN [sc EXCEPT !.logos = @ + 1]
    ELSE IF type = "bomb" THEN [sc EXCEPT !.bomb = TRUE]
    ELSE NoScript

IdleRNG ==
    /\ rng1 = NewGenerator(One)
    /\ rng2 = NewGenerator(One)
    /\ IdleSession

\* a fresh state, or one reached by a run of logo taps or of bomb taps
InitLogic ==
    /\ IdleRNG
    /\ now = 0
    /\ \E warm \in { <<"logo", 0>>, <<"logo", WarmStreak>>, <<"bomb", WarmBombs>> } :
         gameState = TapRun(createInitialGameState(0), warm[1], warm[2])
    /\ script = NoScript
    /\ lastTap = NoTap
    /\ taps = 0
    /\ ticks = 0

\* processTap then applyTapResult, as every caller pairs them
TapWith(types, max) ==
    /\ taps < max
    /\ \E type \in types :
         \E card \in (IF type = "gift" THEN CardTypes \cup {Undefined} ELSE {Undefined}) :
            LET result == processTap(gameState, type, card, now)
            IN  /\ gameState' = applyTapResult(gameState, result)
                /\ lastTap' = [ type |-> type, card |-> card, result |-> result,
                                wasActive |-> /\ type = "gift"
                                              /\ HasEffect(gameState.activeEffects,
                                                           result.effect.type) ]
                /\ script' = ScriptAfter(script, type)
    /\ taps' = taps + 1
    /\ UNCHANGED <<rng1, rng2, now, ticks, sessionVars>>

Tap == TapWith(TapTypes, MaxTaps)

\* applyTapResult on a result that no processTap call made
ApplyCrafted ==
    /\ taps < MaxTaps
    /\ \E result \in CraftedResults :
         /\ gameState' = applyTapResult(gameState, result)
         /\ lastTap' = [type |-> "crafted", card |-> Undefined, result |-> result]
    /\ script' = NoScript
    /\ taps' = taps + 1
    /\ UNCHANGED <<rng1, rng2, now, ticks, sessionVars>>

\* one frame: updateGameState with the frame's delta
Tick ==
    /\ ticks < MaxTicks
    /\ \E dt \in TickDeltas :
         /\ now' = now + dt
         /\ gameState' \in updateGameState(gameState, dt, now + dt)
    /\ ticks' = ticks + 1
    /\ UNCHANGED <<rng1, rng2, lastTap, script, taps, sessionVars>>

NextLogic == Tap \/ ApplyCrafted \/ Tick

SpecLogic == InitLogic /\ [][NextLogic]_vars

-----------------------------------------------------------------------------
(* The end-to-end scenario: logo and bomb taps from a fresh state *)

InitScenario ==
    /\ IdleRNG
    /\ now = 0
    /\ gameState = createInitialGameState(0)
    /\ script = [logos |-> 0, bomb |-> FALSE, off |-> FALSE]
    /\ lastTap = NoTap
    /\ taps = 0
    /\ ticks = 0

ScenarioTap == TapWith({"logo", "bomb"}, MaxScenarioTaps)

NextScenario == ScenarioTap \/ Tick

SpecScenario == InitScenario /\ [][NextScenario]_vars

-----------------------------------------------------------------------------
(* One session: the start route and GameStateManager on the client           *)

\* the clock reading when the start route runs
Epoch == 10 ^ 6

\* the clock reading when the client initializes its session
ClientStart == Epoch + 250

\* the session id the start route issues: "s1"
PlayIds == { <<115, 49>> }

\* seeds the start route issues; with session id "s1" the first objects are
\* a golden-monad gift then logos for 219, and a logo then a bomb-trap gift
\* for 356
PlaySeeds == {219, 356}

\* frame deltas in ms: a slow frame, and a tab left in the background
FrameDeltas == {3000, 120000}

\* a point no object is tapped through: the bottom right corner of the screen
MissPoint == [x |-> Px(SCREEN_WIDTH), y |-> Px(SCREEN_HEIGHT)]

\* the start route has stored the session and the client has initialized its
\* own with the id and seed returned
InitSession ==
    /\ \E id \in PlayIds, seed \in PlaySeeds :
         LET made == initializeSession(id, seed, ClientStart)
         IN  /\ kv = storeSession(id, seed, Epoch)
             /\ rng1 = made.rng
             /\ gameState = made.gameState
             /\ spawnManager = made.spawnManager
             /\ session = made.session
    /\ rng2 = NewGenerator(One)
    /\ gameObjectPool = NewObjectPool
    /\ animationFrameId = NoFrame
    /\ finish = NoFinish
    /\ call = NoCall
    /\ antiCheat = NoAntiCheat
    /\ contractManager = NoContractManager
    /\ now = ClientStart
    /\ lastTap = NoTap
    /\ script = NoScript
    /\ taps = 0
    /\ ticks = 0

\* the fields of the GameStateManager and of the objects it holds
This ==
    [ session          |-> session,
      gameState        |-> gameState,
      spawnManager     |-> spawnManager,
      rng              |-> rng1.state,
      pool             |-> gameObjectPool,
      animationFrameId |-> animationFrameId,
      contractManager  |-> contractManager ]

\* the manager's fields are those of `this`
Becomes(this) ==
    /\ session' = this.session
    /\ gameState' = this.gameState
    /\ spawnManager' = this.spawnManager
    /\ rng1' = [rng1 EXCEPT !.state = this.rng]
    /\ gameObjectPool' = this.pool
    /\ animationFrameId' = this.animationFrameId
    /\ contractManager' = this.contractManager

\* startCountdown()
StartCountdown ==
    /\ session.state = "READY"
    /\ Becomes(startCountdown(This, now).this)
    /\ UNCHANGED <<rng2, now, lastTap, script, taps, ticks, kv, finish, call, antiCheat>>

\* startGame()
StartGame ==
    /\ session.state = "COUNTDOWN"
    /\ Becomes(startGame(This, now).this)
    /\ UNCHANGED <<rng2, now, lastTap, script, taps, ticks, kv, finish, call, antiCheat>>

\* pauseGame()
PauseGame ==
    /\ session.state = "RUNNING"
    /\ Becomes(pauseGame(This).this)
    /\ UNCHANGED <<rng2, now, lastTap, script, taps, ticks, kv, finish, call, antiCheat>>

\* resumeGame()
ResumeGame ==
    /\ session.state = "PAUSED"
    /\ Becomes(resumeGame(This, now).this)
    /\ UNCHANGED <<rng2, now, lastTap, script, taps, ticks, kv, finish, call, antiCheat>>

\* the points a player taps: where an object is, or MissPoint
TapPoints ==
    {session.objects[i].position : i \in 1..Len(session.objects)} \cup {MissPoint}

\* handleTap(position), at the position of an object or at MissPoint
HandleTap ==
    /\ session.state = "RUNNING"
    /\ taps < MaxSessionTaps
    /\ \E position \in TapPoints :
         \E done \in {handleTap(This, position, now)} :
            /\ Becomes(done.this)
            /\ lastTap' = done.tap
    /\ taps' = taps + 1
    /\ UNCHANGED <<rng2, now, script, ticks, kv, finish, call, antiCheat>>

\* one run of the game loop's update callback, dt ms after the last action
Frame ==
    /\ animationFrameId = Requested
    /\ ticks < MaxFrames
    /\ \E dt \in FrameDeltas :
         /\ now' = now + dt
         /\ \E done \in update(This, now + dt) : Becomes(done.this)
    /\ ticks' = ticks + 1
    /\ UNCHANGED <<rng2, lastTap, script, taps, kv, finish, call, antiCheat>>

\* showSummary()
ShowSummary ==
    /\ session.state = "FINISHED"
    /\ Becomes(showSummary(This).this)
    /\ UNCHANGED <<rng2, now, lastTap, script, taps, ticks, kv, finish, call, antiCheat>>

NextSession ==
    \/ StartCountdown
    \/ StartGame
    \/ PauseGame
    \/ ResumeGame
    \/ HandleTap
    \/ Frame
    \/ ShowSummary

SpecSession == InitSession /\ [][NextSession]_vars

-----------------------------------------------------------------------------
(* One GameStateManager on which every public method is called in every     *)
(* state, each call recorded with what it returned and assigned             *)

\* the seed the start route issued
CallSeeds == {356}

\* time that passes in ms while the page is hidden and no frame runs
HiddenTimes == {5000}

\* the call just made
Called(op, done) == [op |-> op, returned |-> done.returned, assigned |-> done.assigned]

\* the id of the n-th session the page initializes: "s1", "s2", ...  (the
\* page builds each id from the wallet address and Date.now())
CallId(n) == <<115, 48 + n>>

\* no session has been initialized and the page has not been hidden
NoneInitialized == [sessions |-> 0, hidden |-> 0]

\* new GameStateManager(config): the manager has no session yet
InitCalls ==
    /\ \E id \in PlayIds, seed \in CallSeeds : kv = storeSession(id, seed, Epoch)
    /\ rng1 = NewGenerator(One)
    /\ rng2 = NewGenerator(One)
    /\ gameState = createInitialGameState(0)
    /\ session = NoSession
    /\ spawnManager = NoSpawnManager
    /\ gameObjectPool = NewObjectPool
    /\ animationFrameId = NoFrame
    /\ finish = NoFinish
    /\ call = NoCall
    /\ antiCheat = NoAntiCheat
    /\ contractManager = NoContractManager
    /\ now = ClientStart
    /\ lastTap = NoTap
    /\ script = NoneInitialized
    /\ taps = 0
    /\ ticks = 0

\* initializeSession(sessionId, seed), in any state of the manager: the
\* session it makes replaces the one the manager had, with its game state,
\* generator and spawn manager; a frame that was requested stays requested.
\* The session made is returned
CallInitializeSession ==
    /\ script.sessions < MaxCallSessions
    /\ \E seed \in CallSeeds :
         \E made \in {initializeSession(CallId(script.sessions + 1), seed, now)} :
            /\ rng1' = made.rng
            /\ gameState' = made.gameState
            /\ spawnManager' = made.spawnManager
            /\ session' = made.session
            /\ call' = [op |-> "initializeSession", returned |-> made.session,
                        assigned |-> <<"READY">>]
    /\ script' = [script EXCEPT !.sessions = @ + 1]
    /\ UNCHANGED <<rng2, now, lastTap, taps, ticks, gameObjectPool,
                   animationFrameId, kv, finish, antiCheat, contractManager>>

\* cleanup(), in any state of the manager that has a session: the frame
\* requested is cancelled and the session dropped, and with it its game
\* state, generator and spawn manager
CallCleanup ==
    /\ session # NoSession
    /\ \E done \in {cleanup(This)} :
         /\ Becomes(done.this)
         /\ call' = Called("cleanup", done)
    /\ UNCHANGED <<rng2, now, lastTap, script, taps, ticks, kv, finish, antiCheat>>

\* a call of a method that takes no argument and is not counted
CallOf(op, done) ==
    /\ Becomes(done.this)
    /\ call' = Called(op, done)
    /\ UNCHANGED <<rng2, now, lastTap, script, taps, ticks, kv, finish, antiCheat>>

CallStartCountdown == CallOf("startCountdown", startCountdown(This, now))

CallStartGame == CallOf("startGame", startGame(This, now))

CallPauseGame == CallOf("pauseGame", pauseGame(This))

CallResumeGame == CallOf("resumeGame", resumeGame(This, now))

CallShowSummary == CallOf("showSummary", showSummary(This))

\* handleTap(position) in any state; the taps it processes are counted
CallHandleTap ==
    /\ taps < MaxCallTaps
    /\ \E position \in (IF session = NoSession THEN {MissPoint} ELSE TapPoints) :
         \E done \in {handleTap(This, position, now)} :
            /\ Becomes(done.this)
            /\ lastTap' = done.tap
            /\ taps' = IF done.tap = NoTap THEN taps ELSE taps + 1
            /\ call' = Called("handleTap", done)
    /\ UNCHANGED <<rng2, now, script, ticks, kv, finish, antiCheat>>

\* one run of the frame callback, dt ms after the last one
CallFrame ==
    /\ animationFrameId = Requested
    /\ ticks < MaxCallFrames
    /\ \E dt \in FrameDeltas :
         \E done \in update(This, now + dt) :
            /\ now' = now + dt
            /\ Becomes(done.this)
            /\ call' = Called("update", done)
    /\ ticks' = ticks + 1
    /\ UNCHANGED <<rng2, lastTap, script, taps, kv, finish, antiCheat>>

\* the page is hidden while the game is paused: time passes and no frame runs
Hidden ==
    /\ session.state = "PAUSED"
    /\ now = session.lastUpdateTime
    /\ script.hidden < MaxCallHidden
    /\ \E dt \in HiddenTimes : now' = now + dt
    /\ script' = [script EXCEPT !.hidden = @ + 1]
    /\ call' = NoCall
    /\ UNCHANGED <<rng1, rng2, gameState, lastTap, taps, ticks,
                   session, spawnManager, gameObjectPool, animationFrameId, kv, finish,
                   antiCheat, contractManager>>

NextCalls ==
    \/ CallInitializeSession
    \/ CallCleanup
    \/ CallStartCountdown
    \/ CallStartGame
    \/ CallPauseGame
    \/ CallResumeGame
    \/ CallShowSummary
    \/ CallHandleTap
    \/ CallFrame
    \/ Hidden

SpecCalls == InitCalls /\ [][NextCalls]_vars

-----------------------------------------------------------------------------
(* The anti-cheat functions, applied to arbitrary reports *)

\* intervals in ms between two taps: far below the floor, just below it, on
\* it, and far above it
TapIntervals == {10, 49, 50, 100}

\* the timestamp of the earlier tap
EarlierTap == Epoch + 5000

\* tap positions in px: inside the game area, on its edge, outside it
ReportedPositions == { [x |-> 400, y |-> 300], [x |-> 800, y |-> 600], [x |-> 801, y |-> 300] }

\* game states a client reports, by combo (in tenths), streak and score: a
\* consistent one, a combo that the streak does not give, combos one tenth
\* above the streak's (1.1 for 1.0, which is more than 0.1 away as doubles,
\* and 4.1 for 4.0, which is not), a combo above the limit, a score below zero
ReportedStates ==
    { [createInitialGameState(0) EXCEPT !.combo = r[1], !.streak = r[2],
                                       !.score = Double(r[3])] :
        r \in { <<10, 0, 0>>, <<10, 10, 0>>, <<11, 0, 0>>, <<41, 30, 0>>,
                <<55, 42, 0>>, <<10, 0, -1>> } }

\* failed results that no validator of the file returns and the type allows:
\* one of low severity, one whose reason is the empty string, one with no
\* reason
LowFinding == Failed(<<"Note">>, "low")

OtherFindings ==
    { LowFinding, Failed(EmptyReason, "medium"), [isValid |-> FALSE, severity |-> "low"] }

InitAntiCheat ==
    /\ rng1 = NewGenerator(One)
    /\ rng2 = NewGenerator(One)
    /\ IdleLogic

\* every variable but antiCheat
playVars ==
    <<rng1, rng2, gameState, now, lastTap, script, taps, ticks,
      session, spawnManager, gameObjectPool, animationFrameId, kv, finish, call,
      contractManager>>

\* the result of one validator call joins the results and is the last check
Checked(fn, args, result) ==
    [ results |-> Append(antiCheat.results, result),
      risk    |-> NoRisk,
      last    |-> [fn |-> fn, args |-> args, result |-> result] ]

\* validateTapTiming on two timestamps, and the action route's check on them
ValidateTapTiming ==
    /\ Len(antiCheat.results) < MaxFindings
    /\ \E interval \in TapIntervals :
         antiCheat' =
            Checked("validateTapTiming",
                    [ currentTimestamp |-> EarlierTap + interval,
                      lastTimestamp    |-> EarlierTap,
                      routeRejects     |-> actionTooFast(EarlierTap + interval, EarlierTap) ],
                    validateTapTiming(EarlierTap + interval, EarlierTap))
    /\ UNCHANGED playVars

ValidateTapPosition ==
    /\ Len(antiCheat.results) < MaxFindings
    /\ \E position \in ReportedPositions :
         antiCheat' = Checked("validateTapPosition", [position |-> position],
                              validateTapPosition(position))
    /\ UNCHANGED playVars

ValidateGameState ==
    /\ Len(antiCheat.results) < MaxFindings
    /\ \E state \in ReportedStates :
         antiCheat' = Checked("validateGameState", [gameState |-> state],
                              validateGameState(state))
    /\ UNCHANGED playVars

ValidateSessionTiming ==
    /\ Len(antiCheat.results) < MaxFindings
    /\ \E offset \in {-1, 0, MAX_GAME_DURATION + 1} :
         antiCheat' = Checked("validateSessionTiming",
                              [actionTimestamp |-> Epoch + offset, sessionStartTime |-> Epoch],
                              validateSessionTiming(Epoch + offset, Epoch))
    /\ UNCHANGED playVars

\* a failed result made elsewhere is reported
ReportFinding ==
    /\ Len(antiCheat.results) < MaxFindings
    /\ \E finding \in OtherFindings :
         antiCheat' = Checked("other", [note |-> TRUE], finding)
    /\ UNCHANGED playVars

\* assessRisk on the results gathered
AssessRisk ==
    /\ antiCheat.risk = NoRisk
    /\ antiCheat' = [antiCheat EXCEPT !.risk = assessRisk(antiCheat.results)]
    /\ UNCHANGED playVars

NextAntiCheat ==
    \/ ValidateTapTiming
    \/ ValidateTapPosition
    \/ ValidateGameState
    \/ ValidateSessionTiming
    \/ ReportFinding
    \/ AssessRisk

SpecAntiCheat == InitAntiCheat /\ [][NextAntiCheat]_vars

-----------------------------------------------------------------------------
(* One session in which the first objects are all bombs and the player taps  *)
(* them                                                                      *)

\* a seed the start route can issue: with session id "s1" the first five
\* objects spawned are bombs
BombSeeds == {1045}

\* the frame delta in ms: every frame spawns one object
BombFrameDeltas == {3000}

\* the start route has stored the session and the client has initialized its
\* own with the id and seed returned
InitBombs ==
    /\ \E id \in PlayIds, seed \in BombSeeds :
         LET made == initializeSession(id, seed, ClientStart)
         IN  /\ kv = storeSession(id, seed, Epoch)
             /\ rng1 = made.rng
             /\ gameState = made.gameState
             /\ spawnManager = made.spawnManager
             /\ session = made.session
    /\ rng2 = NewGenerator(One)
    /\ gameObjectPool = NewObjectPool
    /\ animationFrameId = NoFrame
    /\ finish = NoFinish
    /\ call = NoCall
    /\ antiCheat = NoAntiCheat
    /\ contractManager = NoContractManager
    /\ now = ClientStart
    /\ lastTap = NoTap
    /\ script = NoScript
    /\ taps = 0
    /\ ticks = 0

\* the point this player taps: where the object spawned last is while it is
\* active, and otherwise MissPoint
BombTapPoints ==
    LET objects == session.objects
    IN  IF objects # <<>> /\ objects[Len(objects)].isActive
        THEN {objects[Len(objects)].position}
        ELSE {MissPoint}

\* handleTap(position), at the object spawned last or at MissPoint
TapBombs ==
    /\ session.state = "RUNNING"
    /\ taps < MaxBombTaps
    /\ \E position \in BombTapPoints :
         \E done \in {handleTap(This, position, now)} :
            /\ Becomes(done.this)
            /\ lastTap' = done.tap
    /\ taps' = taps + 1
    /\ UNCHANGED <<rng2, now, script, ticks, kv, finish, call, antiCheat>>

\* one run of the game loop's update callback, dt ms after the last action
FrameBombs ==
    /\ animationFrameId = Requested
    /\ ticks < MaxBombFrames
    /\ \E dt \in BombFrameDeltas :
         /\ now' = now + dt
         /\ \E done \in update(This, now + dt) : Becomes(done.this)
    /\ ticks' = ticks + 1
    /\ UNCHANGED <<rng2, lastTap, script, taps, kv, finish, call, antiCheat>>

NextBombs ==
    \/ StartCountdown
    \/ TapBombs
    \/ FrameBombs
    \/ ShowSummary

SpecBombs == InitBombs /\ [][NextBombs]_vars

-----------------------------------------------------------------------------
(* A running session whose live list holds objects that overlap, tapped      *)

\* where the centres of the objects on screen are: at OverlapPoint, so that
\* their hitboxes all contain it, or at ApartPoint, away from the others
OverlapPoint == [x |-> Px(SCREEN_WIDTH \div 2), y |-> Px(SCREEN_HEIGHT \div 2)]

ApartPoint == [x |-> Px(SCREEN_WIDTH \div 4), y |-> Px(SCREEN_HEIGHT \div 2)]

Places == {OverlapPoint, ApartPoint}

\* the objects on screen, in spawn order: each of one type at one place
Kinds == [type : DOMAIN priorityOrder, at : Places]

LiveLists == UNION { [1..n -> Kinds] : n \in 0..MaxOverlap }

\* the card every gift on screen carries
OverlapCard == "time-freeze"

\* the objects of the given kinds as the pool hands them out at time t, and
\* the pool afterwards
RECURSIVE placeObjects(_, _, _, _)
placeObjects(kinds, config, pool, t) ==
    IF kinds = <<>> THEN [objects |-> <<>>, pool |-> pool]
    ELSE LET kind == Head(kinds)
             got  == getObject(pool, kind.type, kind.at,
                               [x |-> Px(config.objectSize.x), y |-> Px(config.objectSize.y)],
                               config.fallSpeed,
                               IF kind.type = "gift" THEN OverlapCard ELSE Undefined, t)
             rest == placeObjects(Tail(kinds), config, got.pool, t)
         IN  [objects |-> <<got.object>> \o rest.objects, pool |-> rest.pool]

\* the manager once the countdown has run out in a session started with id
\* "s1" and seed 356: the frame runs at level 0, where it has one outcome
RunningManager ==
    LET made == initializeSession(<<115, 49>>, 356, ClientStart)
        this == [ session          |-> made.session,
                  gameState        |-> made.gameState,
                  spawnManager     |-> made.spawnManager,
                  rng              |-> made.rng.state,
                  pool             |-> NewObjectPool,
                  animationFrameId |-> NoFrame,
                  contractManager  |-> NoContractManager ]
    IN  (CHOOSE done \in update(startCountdown(this, ClientStart).this, ClientStart + 3000) :
            TRUE).this

\* a running session with the objects of a live list on screen
InitOverlap ==
    /\ \E kinds \in LiveLists, this \in {RunningManager} :
         \E placed \in {placeObjects(kinds, this.spawnManager.config, this.pool,
                                     ClientStart + 3000)} :
            /\ session = [this.session EXCEPT !.objects = placed.objects]
            /\ gameObjectPool = placed.pool
            /\ gameState = this.gameState
            /\ spawnManager = this.spawnManager
            /\ animationFrameId = this.animationFrameId
            /\ rng1 = [ seed |-> SessionSeed(<<115, 49>>, NumOfInt(356)),
                        state |-> this.rng, out |-> <<>>, sets |-> 0 ]
    /\ kv = storeSession(<<115, 49>>, 356, Epoch)
    /\ rng2 = NewGenerator(One)
    /\ finish = NoFinish
    /\ call = NoCall
    /\ antiCheat = NoAntiCheat
    /\ contractManager = NoContractManager
    /\ now = ClientStart + 3000
    /\ lastTap = NoTap
    /\ script = NoScript
    /\ taps = 0
    /\ ticks = 0

\* handleTap(position) at one of the places
TapOverlap ==
    /\ session.state = "RUNNING"
    /\ taps < MaxOverlapTaps
    /\ \E position \in Places :
         \E done \in {handleTap(This, position, now)} :
            /\ Becomes(done.this)
            /\ lastTap' = done.tap
    /\ taps' = taps + 1
    /\ UNCHANGED <<rng2, now, script, ticks, kv, finish, call, antiCheat>>

NextOverlap == TapOverlap

SpecOverlap == InitOverlap /\ [][NextOverlap]_vars

-----------------------------------------------------------------------------
(* One session in which the first gift carries a given card and the player   *)
(* taps gifts, or taps outside the game area                                 *)

\* seeds the start route can issue; with session id "s1" the first objects
\* are a monad-swarm gift for 17, a time-freeze gift for 210, a shrink-ray
\* gift for 248, and a glitch then a glitch-purge gift for 1806
CardSeeds == {17, 210, 248, 1806}

\* the frame delta in ms: every frame spawns unless time is frozen
CardFrameDeltas == {1000}

\* a point outside the game area, left of the screen
OutsidePoint == [x |-> Px(-OBJECT_SIZE), y |-> Px(SCREEN_HEIGHT \div 2)]

\* the start route has stored the session and the client has initialized its
\* own with the id and seed returned
InitCards ==
    /\ \E id \in PlayIds, seed \in CardSeeds :
         LET made == initializeSession(id, seed, ClientStart)
         IN  /\ kv = storeSession(id, seed, Epoch)
             /\ rng1 = made.rng
             /\ gameState = made.gameState
             /\ spawnManager = made.spawnManager
             /\ session = made.session
    /\ rng2 = NewGenerator(One)
    /\ gameObjectPool = NewObjectPool
    /\ animationFrameId = NoFrame
    /\ finish = NoFinish
    /\ call = NoCall
    /\ antiCheat = NoAntiCheat
    /\ contractManager = NoContractManager
    /\ now = ClientStart
    /\ lastTap = NoTap
    /\ script = NoScript
    /\ taps = 0
    /\ ticks = 0

\* the points this player taps: where an active gift is, or OutsidePoint
CardTapPoints ==
    {session.objects[i].position :
        i \in {j \in 1..Len(session.objects) :
                 session.objects[j].isActive /\ session.objects[j].type = "gift"}}
      \cup {OutsidePoint}

\* handleTap(position), at an active gift or outside the game area
TapCards ==
    /\ session.state = "RUNNING"
    /\ taps < MaxCardTaps
    /\ \E position \in CardTapPoints :
         \E done \in {handleTap(This, position, now)} :
            /\ Becomes(done.this)
            /\ lastTap' = done.tap
    /\ taps' = taps + 1
    /\ UNCHANGED <<rng2, now, script, ticks, kv, finish, call, antiCheat>>

\* one run of the game loop's update callback, dt ms after the last action
FrameCards ==
    /\ animationFrameId = Requested
    /\ ticks < MaxCardFrames
    /\ \E dt \in CardFrameDeltas :
         /\ now' = now + dt
         /\ \E done \in update(This, now + dt) : Becomes(done.this)
    /\ ticks' = ticks + 1
    /\ UNCHANGED <<rng2, lastTap, script, taps, kv, finish, call, antiCheat>>

NextCards ==
    \/ StartCountdown
    \/ TapCards
    \/ FrameCards

SpecCards == InitCards /\ [][NextCards]_vars

-----------------------------------------------------------------------------
(* One session played with or without a contract manager, whose promises     *)
(* settle at any time, in any order, or never                                *)

\* the play page has called setContractManager, or has no wallet and has not
ContractManagers == {NoContractManager, [attached |-> TRUE, promises |-> <<>>]}

\* the start route has stored the session and the client has initialized its
\* own with the id and seed returned
InitChain ==
    /\ \E id \in PlayIds, seed \in BombSeeds :
         LET made == initializeSession(id, seed, ClientStart)
         IN  /\ kv = storeSession(id, seed, Epoch)
             /\ rng1 = made.rng
             /\ gameState = made.gameState
             /\ spawnManager = made.spawnManager
             /\ session = made.session
    /\ contractManager \in ContractManagers
    /\ rng2 = NewGenerator(One)
    /\ gameObjectPool = NewObjectPool
    /\ animationFrameId = NoFrame
    /\ finish = NoFinish
    /\ call = NoCall
    /\ antiCheat = NoAntiCheat
    /\ now = ClientStart
    /\ lastTap = NoTap
    /\ script = NoScript
    /\ taps = 0
    /\ ticks = 0

\* handleTap(position), at the object spawned last or at MissPoint
TapChain ==
    /\ session.state = "RUNNING"
    /\ taps < MaxChainTaps
    /\ \E position \in BombTapPoints :
         \E done \in {handleTap(This, position, now)} :
            /\ Becomes(done.this)
            /\ lastTap' = done.tap
    /\ taps' = taps + 1
    /\ UNCHANGED <<rng2, now, script, ticks, kv, finish, call, antiCheat>>

\* one run of the game loop's update callback, dt ms after the last action
FrameChain ==
    /\ animationFrameId = Requested
    /\ ticks < MaxChainFrames
    /\ \E dt \in FrameDeltas :
         /\ now' = now + dt
         /\ \E done \in update(This, now + dt) : Becomes(done.this)
    /\ ticks' = ticks + 1
    /\ UNCHANGED <<rng2, lastTap, script, taps, kv, finish, call, antiCheat>>

\* a pending promise resolves or rejects, and its .then or .catch handler
\* runs: each writes one line to the console
Settle ==
    /\ \E i \in 1..Len(contractManager.promises), outcome \in {"resolved", "rejected"} :
         /\ contractManager.promises[i].state = "pending"
         /\ contractManager' = [contractManager EXCEPT !.promises[i].state = outcome]
    /\ UNCHANGED <<rng1, rng2, gameState, now, lastTap, script, taps, ticks,
                   session, spawnManager, gameObjectPool, animationFrameId, kv, finish,
                   call, antiCheat>>

\* setContractManager(contractManager), called once the wallet is connected,
\* in any state of the session
SetContractManager ==
    /\ ~contractManager.attached
    /\ contractManager' = setContractManager(contractManager)
    /\ UNCHANGED <<rng1, rng2, gameState, now, lastTap, script, taps, ticks,
                   session, spawnManager, gameObjectPool, animationFrameId, kv, finish,
                   call, antiCheat>>

NextChain ==
    \/ SetContractManager
    \/ StartCountdown
    \/ TapChain
    \/ FrameChain
    \/ Settle
    \/ ShowSummary

SpecChain == InitChain /\ [][NextChain]_vars

-----------------------------------------------------------------------------
(* Spawn events of one SpawnManager, with and without monad-swarm *)

\* seeds of the manager's generator: the literal ones, and the two for which
\* the value drawn after the constructor's draw is 2^32 - 1 (3764646662) and
\* 1 (1402280963)
BurstSeeds ==
    { Zero, One, NumOfInt(12345), NumOfInt(-5), TwoTo32,
      <<0, 57443, 62214>>, <<0, 21397, 7171>> }
    \cup { SessionSeed(id, ts) : id \in SessionIds, ts \in Timestamps }

\* spawnRateMultiplier as updateGame passes it: 3 under monad-swarm, else 1
SpawnRateMultipliers == {1, 3}

\* ms between two update calls: too few for a spawn to be due again, and
\* enough
BurstDeltas == {100, 1500}

\* new SpawnManager(rng, config) on a new generator, with the configuration
\* initializeSession gives it: the constructor has drawn the first delay
InitBurst ==
    /\ \E s1 \in BurstSeeds :
         /\ rng1 = [NewGenerator(s1) EXCEPT !.state = NextState(@)]
         /\ spawnManager = SpawnManager(XORShift32(s1), RunningManager.spawnManager.config)
    /\ rng2 = NewGenerator(One)
    /\ session = NoSession
    /\ gameObjectPool = NewObjectPool
    /\ animationFrameId = NoFrame
    /\ kv = NoKV
    /\ finish = NoFinish
    /\ call = NoCall
    /\ antiCheat = NoAntiCheat
    /\ contractManager = NoContractManager
    /\ gameState = createInitialGameState(0)
    /\ now = ClientStart + 3000
    /\ lastTap = NoTap
    /\ script = NoScript
    /\ taps = 0
    /\ ticks = 0

\* the manager's part of one updateGame: updateConfig with the spawn rate
\* multiplied, then update(currentTime, modifiers).  When the call spawns,
\* the first value the spawn event draws is kept in rng1.out; the call
\* records the multiplier and the number of objects returned
SpawnBurst ==
    /\ ticks < MaxBursts
    /\ \E m \in SpawnRateMultipliers, timeFrozen \in BOOLEAN, dt \in BurstDeltas :
         \E done \in {SpawnManager_update(
                         updateConfig(spawnManager, gameState.difficulty.fallSpeed,
                                      FMul(gameState.difficulty.spawnRate, Double(m))),
                         rng1.state, gameObjectPool, now + dt,
                         [spawnRate |-> m, timeFrozen |-> timeFrozen])} :
           /\ now' = now + dt
           /\ rng1' = [rng1 EXCEPT !.state = done.rng,
                                   !.out = IF done.objects = <<>> THEN @
                                           ELSE Append(@, NextValue(rng1.state))]
           /\ spawnManager' = done.spawnManager
           /\ gameObjectPool' = done.pool
           /\ call' = [op |-> "update", returned |-> Len(done.objects),
                       assigned |-> <<m>>]
    /\ ticks' = ticks + 1
    /\ UNCHANGED <<rng2, gameState, lastTap, script, taps, session,
                   animationFrameId, kv, finish, antiCheat, contractManager>>

NextBurst == SpawnBurst

SpecBurst == InitBurst /\ [][NextBurst]_vars

-----------------------------------------------------------------------------
(* One session that is paused and resumed while frames keep running, with    *)
(* the time played kept beside it                                            *)

\* frame deltas in ms once the countdown is over: a frame of a 60 Hz display,
\* and 40 s spent in the background, a third of the game and more than one
\* difficulty interval
PauseFrameDeltas == {16, 40000}

\* the seed the start route issues
PauseSeeds == {356}

\* the frame that ends the countdown comes when it has run out
CountdownDelta == 3000

\* the time played: ms of RUNNING frames since startGame (played), its value
\* at the last spawn (spawnedAt), and whether resumeGame was the last call
NotPlayed == [played |-> 0, spawnedAt |-> 0, resumed |-> FALSE]

InitPause ==
    /\ \E id \in PlayIds, seed \in PauseSeeds :
         LET made == initializeSession(id, seed, ClientStart)
         IN  /\ kv = storeSession(id, seed, Epoch)
             /\ rng1 = made.rng
             /\ gameState = made.gameState
             /\ spawnManager = made.spawnManager
             /\ session = made.session
    /\ contractManager = NoContractManager
    /\ rng2 = NewGenerator(One)
    /\ gameObjectPool = NewObjectPool
    /\ animationFrameId = NoFrame
    /\ finish = NoFinish
    /\ call = NoCall
    /\ antiCheat = NoAntiCheat
    /\ now = ClientStart
    /\ lastTap = NoTap
    /\ script = NotPlayed
    /\ taps = 0
    /\ ticks = 0

\* the time played once a frame of dt ms has left the manager as `this`
PlayedAfter(this, dt) ==
    IF session.state = "COUNTDOWN"
    THEN NotPlayed
    ELSE IF session.state = "RUNNING"
    THEN [ played    |-> script.played + dt,
           spawnedAt |-> IF this.spawnManager.lastSpawnTime # spawnManager.lastSpawnTime
                         THEN script.played + dt ELSE script.spawnedAt,
           resumed   |-> FALSE ]
    ELSE script

\* one run of the frame callback; frames keep coming while the game is paused
FramePause ==
    /\ animationFrameId = Requested
    /\ ticks < MaxPauseFrames
    /\ \E dt \in (IF session.state = "COUNTDOWN" THEN {CountdownDelta} ELSE PauseFrameDeltas) :
         \E done \in update(This, now + dt) :
            /\ now' = now + dt
            /\ Becomes(done.this)
            /\ script' = PlayedAfter(done.this, dt)
    /\ ticks' = ticks + 1
    /\ UNCHANGED <<rng2, lastTap, taps, kv, finish, call, antiCheat>>

\* resumeGame()
ResumePause ==
    /\ session.state = "PAUSED"
    /\ Becomes(resumeGame(This, now).this)
    /\ script' = [script EXCEPT !.resumed = TRUE]
    /\ UNCHANGED <<rng2, now, lastTap, taps, ticks, kv, finish, call, antiCheat>>

\* handleTap(position) at a point where no object is
TapPause ==
    /\ session.state = "RUNNING"
    /\ taps < MaxPauseTaps
    /\ \E done \in {handleTap(This, MissPoint, now)} :
         /\ Becomes(done.this)
         /\ lastTap' = done.tap
    /\ taps' = taps + 1
    /\ UNCHANGED <<rng2, now, script, ticks, kv, finish, call, antiCheat>>

NextPause == StartCountdown \/ FramePause \/ PauseGame \/ ResumePause \/ TapPause

SpecPause == InitPause /\ [][NextPause]_vars

-----------------------------------------------------------------------------
(* One session played to its end under fair frames: the player taps gifts,   *)
(* pauses, and comes back                                                    *)

\* seeds the start route can issue; with session id "s1" the first objects
\* are a time-freeze gift then an extra-time gift for 14904, and two
\* extra-time gifts for 30758
LiveSeeds == {14904, 30758}

\* the frame delta in ms once the countdown is over: every frame spawns
\* unless time is frozen, and an object stays on screen for one frame
LiveFrameDeltas == {5000}

\* the frame delta in ms while the game is paused: the frames go on at the
\* display's pace; their deltas are summed up into one long frame
PausedFrameDeltas == {30000}

\* the number of frames that have run while the game was paused
NotPaused == [pausedFrames |-> 0]

InitLive ==
    /\ \E id \in PlayIds, seed \in LiveSeeds :
         LET made == initializeSession(id, seed, ClientStart)
         IN  /\ kv = storeSession(id, seed, Epoch)
             /\ rng1 = made.rng
             /\ gameState = made.gameState
             /\ spawnManager = made.spawnManager
             /\ session = made.session
    /\ contractManager = NoContractManager
    /\ rng2 = NewGenerator(One)
    /\ gameObjectPool = NewObjectPool
    /\ animationFrameId = NoFrame
    /\ finish = NoFinish
    /\ call = NoCall
    /\ antiCheat = NoAntiCheat
    /\ now = ClientStart
    /\ lastTap = NoTap
    /\ script = NotPaused
    /\ taps = 0
    /\ ticks = 0

\* one run of the frame callback, in whatever state the session is.  The
\* frames that find the session in COUNTDOWN or RUNNING are counted in ticks,
\* with no bound on their number: they stop when the game ends.  A frame
\* that finds it PAUSED stamps lastUpdateTime and requests the next one
FrameLive ==
    /\ animationFrameId = Requested
    /\ session.state = "PAUSED" => script.pausedFrames < MaxLivePausedFrames
    /\ \E dt \in (IF session.state = "COUNTDOWN" THEN {CountdownDelta}
                  ELSE IF session.state = "PAUSED" THEN PausedFrameDeltas
                  ELSE LiveFrameDeltas) :
         /\ now' = now + dt
         /\ \E done \in update(This, now + dt) : Becomes(done.this)
    /\ ticks' = IF session.state = "PAUSED" THEN ticks ELSE ticks + 1
    /\ script' = IF session.state = "PAUSED"
                 THEN [script EXCEPT !.pausedFrames = @ + 1] ELSE script
    /\ UNCHANGED <<rng2, lastTap, taps, kv, finish, call, antiCheat>>

\* handleTap(position) at an active gift
TapLive ==
    /\ session.state = "RUNNING"
    /\ \E position \in CardTapPoints \ {OutsidePoint} :
         \E done \in {handleTap(This, position, now)} :
            /\ Becomes(done.this)
            /\ lastTap' = done.tap
    /\ taps' = taps + 1
    /\ UNCHANGED <<rng2, now, script, ticks, kv, finish, call, antiCheat>>

\* pauseGame(), as often as the player likes
PauseLive ==
    /\ session.state = "RUNNING"
    /\ Becomes(pauseGame(This).this)
    /\ UNCHANGED <<rng2, now, lastTap, script, taps, ticks, kv, finish, call, antiCheat>>

\* resumeGame(), at any time after pauseGame, also before the next frame
ResumeLive ==
    /\ session.state = "PAUSED"
    /\ Becomes(resumeGame(This, now).this)
    /\ UNCHANGED <<rng2, now, lastTap, script, taps, ticks, kv, finish, call, antiCheat>>

NextLive == StartCountdown \/ FrameLive \/ TapLive \/ PauseLive \/ ResumeLive \/ ShowSummary

\* a frame has been requested that will tick the game: the session is in
\* COUNTDOWN or RUNNING
TickRequested == animationFrameId = Requested /\ session.state \in {"COUNTDOWN", "RUNNING"}

\* a step of FrameLive that ticked the game, among the steps of NextLive
TickRan == ticks' = ticks + 1

\* Fair ticking: a session that is in COUNTDOWN or RUNNING with a frame
\* requested again and again is ticked again and again, the frames that find
\* it PAUSED not being ticks of the game; and the player does not stay
\* paused.  The third conjunct is SF_vars of the ticking frames, with
\* ENABLED written as the state predicate it amounts to; weak fairness would
\* not do, since a player can pause before every frame and resume after it
SpecLive ==
    /\ InitLive
    /\ [][NextLive]_vars
    /\ (<>[](~TickRequested) \/ []<><<TickRan>>_vars)
    /\ WF_vars(ResumeLive)

-----------------------------------------------------------------------------
(* The SessionAPI client of one session, its requests in flight and the      *)
(* routes that answer them, each at one of its awaits                        *)

\* ms between two taps of a fast player, above the route's MIN_TAP_INTERVAL
ActionGaps == {60}

\* the type of the actions recorded
ActionTypes == {"logo"}

\* where the player taps, in px
ActionPosition == [x |-> SCREEN_WIDTH \div 2, y |-> SCREEN_HEIGHT \div 2]

\* authToken: null, or the token setAuthToken was given
NoToken == "null"

AuthToken == "token"

\* currentSessionId and lastStateHash when they are null
NoSessionId == <<>>

NoHash == <<>>

\* batchTimer when it is null; otherwise the time at which the interval
\* fires next
NoTimer == 0

\* no finishSession call is suspended at its await this.flushActions()
NotFinishing == <<>>

\* SessionAPI once setAuthToken and startSession have returned, the start
\* route having issued sessionId at time t: an empty buffer and the batch
\* timer set
startSession(sessionId, t) ==
    [ authToken        |-> AuthToken,
      currentSessionId |-> sessionId,
      actionBuffer     |-> <<>>,
      batchTimer       |-> t + BATCH_INTERVAL,
      lastStateHash    |-> NoHash,
      finishing        |-> NotFinishing ]

\* the client and the finishSession calls made on it
Started(sessionId, t) == [api |-> startSession(sessionId, t), finishSessions |-> 0]

\* a fetch that has been sent: the request is on its way to its route
Sent(kind, api, body) ==
    [kind |-> kind, pc |-> "sent", authorization |-> api.authToken, body |-> body]

\* flushActions() up to its fetch: the buffer is copied into the request and
\* cleared at once; nothing is sent without a token, a session or an action
flushActions(api) ==
    IF api.authToken = NoToken \/ api.currentSessionId = NoSessionId \/ api.actionBuffer = <<>>
    THEN [api |-> api, sent |-> <<>>]
    ELSE [ api  |-> [api EXCEPT !.actionBuffer = <<>>],
           sent |-> << Sent("action", api,
                            [ sessionId       |-> api.currentSessionId,
                              actions         |-> api.actionBuffer,
                              clientStateHash |-> api.lastStateHash ]) >> ]

\* recordAction(action): the buffer is flushed when it is full, and the call
\* returns without waiting for the answer
recordAction(api, action) ==
    IF api.currentSessionId = NoSessionId THEN [api |-> api, sent |-> <<>>]
    ELSE LET pushed == [api EXCEPT !.actionBuffer = Append(@, action)]
         IN  IF Len(pushed.actionBuffer) >= MAX_BUFFER_SIZE THEN flushActions(pushed)
             ELSE [api |-> pushed, sent |-> <<>>]

\* the callback of the batch timer: the buffer is flushed unless it is empty
batchTimer(api) ==
    IF api.actionBuffer # <<>> THEN flushActions(api) ELSE [api |-> api, sent |-> <<>>]

\* the array a finishSession call was given, as it is now: one of the
\* caller's own, which nothing changes, or session.tapHistory of the manager,
\* which handleTap pushes to (no step taken while a call is suspended makes
\* the manager another session)
Content(array) == IF array.of = "session" THEN session.tapHistory ELSE array.content

\* finishing without its k-th call
Resumed(finishing, k) ==
    SubSeq(finishing, 1, k - 1) \o SubSeq(finishing, k + 1, Len(finishing))

\* finishSession after its await this.flushActions(), for the k-th of the
\* suspended calls: the timer is cleared and the finish request sent, with
\* the token and the session id the client has then and the array as it is
\* then
finishFetch(api, k) ==
    [ api  |-> [api EXCEPT !.batchTimer = NoTimer, !.finishing = Resumed(@, k)],
      sent |-> << Sent("finish", api,
                       [ sessionId        |-> api.currentSessionId,
                         clientFinalScore |-> api.finishing[k].clientFinalScore,
                         tapHistory       |-> Content(api.finishing[k].tapHistory) ]) >> ]

\* flushActions() after its fetch, data being the answer to request i: the
\* hash of an accepted batch is kept, and the finishSession call that awaits
\* this flush, if there is one, goes on
flushKept(api, data) ==
    IF data.status = 200 THEN [api EXCEPT !.lastStateHash = data.stateHash] ELSE api

flushAnswered(api, i, data) ==
    IF \E k \in DOMAIN api.finishing : api.finishing[k].flush = i
    THEN finishFetch(flushKept(api, data),
                     CHOOSE k \in DOMAIN api.finishing : api.finishing[k].flush = i)
    ELSE [api |-> flushKept(api, data), sent |-> <<>>]

\* clearAuth()
clearAuth(api) ==
    [api EXCEPT !.authToken = NoToken,
                !.currentSessionId = NoSessionId,
                !.actionBuffer = <<>>,
                !.batchTimer = NoTimer]

\* the first 16 hex digits of the sha256 digest of JSON.stringify(stateData).
\* The digest is not computed: the data it is taken of stand for it, so that
\* two hashes are equal when their data are
stateHash(updates) ==
    << updates.gameState.score, updates.gameState.lives, updates.gameState.combo,
       updates.gameState.streak, updates.totalActions >>

\* the response of the action route to a batch it has stored, whose state
\* hash is serverStateHash
actionResponse(request, serverStateHash) ==
    [ status    |-> 200,
      validated |-> Len(request.locals.validated),
      rejected  |-> request.locals.rejected,
      stateHash |-> serverStateHash,
      desync    |-> /\ request.body.clientStateHash # NoHash
                    /\ request.body.clientStateHash # serverStateHash ]

\* Math.abs(serverFinalScore - clientFinalScore)
scoreDifference(serverFinalScore, clientFinalScore) ==
    Abs(FSub(serverFinalScore, clientFinalScore))

\* the locals of the finish route when it calls updateSession, res being
\* what its checks and its re-simulation gave: the generator it makes, and
\* its verdict on the client's score
finishLocals(session0, request, res) ==
    IF res.status # 200 THEN res
    ELSE [ status          |-> 200,
           rng             |-> CreateSessionRNG(request.body.sessionId,
                                                NumOfInt(session0.startTime)),
           finalScore      |-> res.finalScore,
           scoreDifference |-> scoreDifference(res.finalScore, request.body.clientFinalScore),
           isValid         |-> FLeq(scoreDifference(res.finalScore,
                                                    request.body.clientFinalScore),
                                    Double(10)),
           updates         |-> res.updates ]

\* the finish route up to its updateSession call, on the session it read, at
\* time t: verifyMGIDAuth refuses a request without a token
finishRead(session0, request, t) ==
    IF request.authorization = NoToken
    THEN [status |-> 401, error |-> "Invalid authentication token"]
    ELSE IF request.body.sessionId = NoSessionId
    THEN [status |-> 400, error |-> "Missing required fields"]
    ELSE finishLocals(session0, request,
                      finishChecked(session0, request.body.tapHistory, t))

\* the response of the finish route to a session it has stored
finishResponse(request) ==
    [ status     |-> 200,
      finalScore |-> request.locals.finalScore,
      isValid    |-> request.locals.isValid ]

\* a route after its checks: it goes on to updateSession with its locals, or
\* it answers with an error
Routed(request, res) ==
    IF res.status = 200
    THEN [kind |-> request.kind, pc |-> "checked", authorization |-> request.authorization,
          body |-> request.body, locals |-> res]
    ELSE [kind |-> request.kind, pc |-> "answered", authorization |-> request.authorization,
          body |-> request.body, response |-> res]

\* a route at a later await, or answering
Awaiting(request, pc) == [request EXCEPT !.pc = pc]

Answered(request, response) ==
    [kind |-> request.kind, pc |-> "answered", authorization |-> request.authorization,
     body |-> request.body, locals |-> request.locals, response |-> response]

\* the actions of the batches stored so far, in the order they were stored,
\* and the kind of the request that wrote the session last
NoneValidated == [validated |-> <<>>, writer |-> "none"]

\* what a caller passes to finishSession: the score and the tapHistory of a
\* game of one logo
FinishBodies ==
    { [ clientFinalScore |-> Double(10),
        tapHistory       |-> [ of      |-> "caller",
                               content |-> << [ timestamp |-> Epoch + CountdownDelta + 60,
                                                position  |-> ActionPosition,
                                                result    |-> "logo" ] >> ] ] }

\* the variables of the GameStateManager, which the SessionAPI client and
\* the routes leave alone
managerVars ==
    <<rng1, rng2, gameState, lastTap, session, spawnManager, gameObjectPool,
      animationFrameId, antiCheat, contractManager>>

InitBatch ==
    /\ \E id \in PlayIds, seed \in PauseSeeds :
         /\ kv = storeSession(id, seed, Epoch)
         /\ script = Started(id, Epoch)
    /\ call = <<>>
    /\ finish = NoneValidated
    /\ now = Epoch
    /\ rng1 = NewGenerator(One)
    /\ rng2 = NewGenerator(One)
    /\ gameState = createInitialGameState(0)
    /\ session = NoSession
    /\ spawnManager = NoSpawnManager
    /\ gameObjectPool = NewObjectPool
    /\ animationFrameId = NoFrame
    /\ antiCheat = NoAntiCheat
    /\ contractManager = NoContractManager
    /\ lastTap = NoTap
    /\ taps = 0
    /\ ticks = 0

\* the requests the server has not answered yet
InFlight == {i \in DOMAIN call : call[i].pc \notin {"answered", "received"}}

\* those requests and the finish requests that the suspended finishSession
\* calls are still to send
Unanswered == Cardinality(InFlight) + Len(script.api.finishing)

\* a finishSession call whose flushActions() sent nothing is to go on: its
\* continuation runs when the running task ends, before a timer, a frame or
\* an answer is handled
Due == \E k \in DOMAIN script.api.finishing : script.api.finishing[k].flush = 0

\* the client makes a call that leaves it as done.api and sends done.sent
Fetched(called) ==
    \E done \in {called} :
       /\ Len(done.sent) > 0 => Unanswered < MaxInFlight
       /\ script' = [script EXCEPT !.api = done.api]
       /\ call' = call \o done.sent

\* recordAction(action) at the next tap, once the countdown is over; a full
\* buffer is sent, and the client goes on recording while the request is in
\* flight
RecordAction ==
    /\ taps < MaxActions
    /\ script.api.currentSessionId # NoSessionId
    /\ now >= kv.startTime + CountdownDelta
    /\ \E gap \in ActionGaps, type \in ActionTypes :
         /\ script.api.batchTimer # NoTimer => now + gap < script.api.batchTimer
         /\ now' = now + gap
         /\ Fetched(recordAction(script.api, [ timestamp |-> now + gap,
                                               position  |-> ActionPosition,
                                               type      |-> type ]))
    /\ taps' = taps + 1
    /\ UNCHANGED <<managerVars, ticks, kv, finish>>

\* the player is between the first tap and the last, which come one gap after
\* the other
Tapping == 0 < taps /\ taps < MaxActions /\ script.api.currentSessionId # NoSessionId

\* the callback of the batch timer, run when the timer is due, no tap of the
\* player coming before it: the buffer is sent unless it is empty
BatchTimer ==
    /\ ticks < MaxBatchTimers
    /\ ~Due
    /\ script.api.batchTimer # NoTimer
    /\ Tapping => \A gap \in ActionGaps : now + gap >= script.api.batchTimer
    /\ now' = script.api.batchTimer
    /\ Fetched(batchTimer([script.api EXCEPT !.batchTimer = @ + BATCH_INTERVAL]))
    /\ ticks' = ticks + 1
    /\ UNCHANGED <<managerVars, taps, kv, finish>>

\* finishSession up to its await this.flushActions(), flushed being what
\* that flushActions call did up to its fetch and sends the number of
\* requests sent before: the call is suspended there, until the answer to
\* the batch has come (flush is the request's number) or, when nothing was
\* sent, until the running task ends (flush is 0); clientFinalScore is kept
\* by value and tapHistory by reference
finishSession(flushed, sends, clientFinalScore, tapHistory) ==
    [ api  |-> [flushed.api EXCEPT !.finishing =
                   Append(@, [ flush            |-> IF flushed.sent = <<>> THEN 0
                                                    ELSE sends + 1,
                               clientFinalScore |-> clientFinalScore,
                               tapHistory       |-> tapHistory ])],
      sent |-> flushed.sent ]

\* finishSession(clientFinalScore, tapHistory), which throws without a token
\* or a session
CallFinishSession(clientFinalScore, tapHistory) ==
    /\ script.finishSessions < MaxFinishSessions
    /\ script.api.authToken # NoToken
    /\ script.api.currentSessionId # NoSessionId
    /\ \E done \in {finishSession(flushActions(script.api), Len(call),
                                   clientFinalScore, tapHistory)} :
          /\ Unanswered + Len(done.sent) < MaxInFlight
          /\ script' = [api |-> done.api, finishSessions |-> script.finishSessions + 1]
          /\ call' = call \o done.sent

\* finishSession called with a score and an array of the caller's, at any
\* time
FinishSession ==
    /\ \E given \in FinishBodies :
         CallFinishSession(given.clientFinalScore, given.tapHistory)
    /\ UNCHANGED <<managerVars, now, taps, ticks, kv, finish>>

\* finishSession goes on after an await this.flushActions() that sent
\* nothing: the calls suspended so go on in the order they were made
FinishResumed ==
    /\ Due
    /\ \E done \in {finishFetch(script.api,
                                 CHOOSE k \in DOMAIN script.api.finishing :
                                    /\ script.api.finishing[k].flush = 0
                                    /\ \A j \in 1..(k - 1) : script.api.finishing[j].flush # 0)} :
          /\ script' = [script EXCEPT !.api = done.api]
          /\ call' = call \o done.sent
    /\ UNCHANGED <<managerVars, now, taps, ticks, kv, finish>>

\* clearAuth(), at any time
ClearAuth ==
    /\ script.api.authToken # NoToken
    /\ script' = [script EXCEPT !.api = clearAuth(@)]
    /\ UNCHANGED <<managerVars, now, taps, ticks, kv, finish, call>>

\* the action route: await getSession(sessionId), then the checks, at the
\* server's Date.now(), and the loop over the actions
ActionRouteRead ==
    /\ \E i \in DOMAIN call :
         /\ call[i].kind = "action"
         /\ call[i].pc = "sent"
         /\ \E res \in {actionChecked(kv, call[i].body.actions, now)} :
               call' = [call EXCEPT ![i] = Routed(@, res)]
    /\ UNCHANGED <<managerVars, now, script, taps, ticks, kv, finish>>

\* the finish route: await getSession(sessionId), then the isActive check and
\* the re-simulation
FinishRouteRead ==
    /\ \E i \in DOMAIN call :
         /\ call[i].kind = "finish"
         /\ call[i].pc = "sent"
         /\ \E res \in {finishRead(kv, call[i], now)} :
               call' = [call EXCEPT ![i] = Routed(@, res)]
    /\ UNCHANGED <<managerVars, now, script, taps, ticks, kv, finish>>

\* updateSession: const existing = await getSession(sessionId)
UpdateSessionRead ==
    /\ \E i \in DOMAIN call :
         /\ call[i].pc = "checked"
         /\ call' = [call EXCEPT ![i] =
                        [kind |-> @.kind, pc |-> "merging", authorization |-> @.authorization,
                         body |-> @.body, locals |-> @.locals, existing |-> kv]]
    /\ UNCHANGED <<managerVars, now, script, taps, ticks, kv, finish>>

\* updateSession: await kv.set(key, { ...existing, ...updates }); the
\* actions of a batch that is stored are kept in finish.validated
UpdateSessionWrite ==
    /\ \E i \in DOMAIN call :
         /\ call[i].pc = "merging"
         /\ kv' = Merged(call[i].existing, call[i].locals.updates)
         /\ finish' = [ validated |-> IF call[i].kind = "action"
                                       THEN finish.validated \o call[i].locals.validated
                                       ELSE finish.validated,
                         writer    |-> call[i].kind ]
         /\ call' = [call EXCEPT ![i] =
                        [kind |-> @.kind, pc |-> "stored", authorization |-> @.authorization,
                         body |-> @.body, locals |-> @.locals]]
    /\ UNCHANGED <<managerVars, now, script, taps, ticks>>

\* the action route: await storeStateHash(hashData), then the response
ActionRouteAnswer ==
    /\ \E i \in DOMAIN call :
         /\ call[i].kind = "action"
         /\ call[i].pc = "stored"
         /\ \E serverStateHash \in {stateHash(call[i].locals.updates)} :
               call' = [call EXCEPT ![i] = Answered(@, actionResponse(@, serverStateHash))]
    /\ UNCHANGED <<managerVars, now, script, taps, ticks, kv, finish>>

\* the finish route: await finishSessionOnChain(...), then the response
FinishRouteSettle ==
    /\ \E i \in DOMAIN call :
         /\ call[i].kind = "finish"
         /\ call[i].pc = "stored"
         /\ call' = [call EXCEPT ![i] = Answered(@, finishResponse(@))]
    /\ UNCHANGED <<managerVars, now, script, taps, ticks, kv, finish>>

\* flushActions() after its fetch: the answer to a batch has come, in
\* whatever order the answers come, and the hash of an accepted batch is
\* kept; the actions of a refused batch are not put back.  A finishSession
\* call that was waiting for this flush goes on
FlushAnswered ==
    /\ ~Due
    /\ \E i \in DOMAIN call :
         /\ call[i].kind = "action"
         /\ call[i].pc = "answered"
         /\ \E done \in {flushAnswered(script.api, i, call[i].response)} :
               /\ script' = [script EXCEPT !.api = done.api]
               /\ call' = [call EXCEPT ![i] = Awaiting(@, "received")] \o done.sent
    /\ UNCHANGED <<managerVars, now, taps, ticks, kv, finish>>

\* finishSession after its fetch: whatever the answer, the session data are
\* cleared
FinishAnswered ==
    /\ ~Due
    /\ \E i \in DOMAIN call :
         /\ call[i].kind = "finish"
         /\ call[i].pc = "answered"
         /\ script' = [script EXCEPT !.api = [@ EXCEPT !.currentSessionId = NoSessionId,
                                                       !.actionBuffer = <<>>,
                                                       !.lastStateHash = NoHash]]
         /\ call' = [call EXCEPT ![i] = Awaiting(@, "received")]
    /\ UNCHANGED <<managerVars, now, taps, ticks, kv, finish>>

NextBatch ==
    \/ RecordAction
    \/ BatchTimer
    \/ FinishSession
    \/ FinishResumed
    \/ ClearAuth
    \/ ActionRouteRead
    \/ FinishRouteRead
    \/ UpdateSessionRead
    \/ UpdateSessionWrite
    \/ ActionRouteAnswer
    \/ FinishRouteSettle
    \/ FlushAnswered
    \/ FinishAnswered

SpecBatch == InitBatch /\ [][NextBatch]_vars

-----------------------------------------------------------------------------
(* A session played through GameStateManager and finished through the        *)
(* SessionAPI client with its score and its tapHistory                       *)

\* the start route has stored the session, the SessionAPI client has been
\* started with it and the GameStateManager initialized with the id and seed
\* returned
InitFinish ==
    /\ \E id \in PlayIds, seed \in PlaySeeds :
         LET made == initializeSession(id, seed, ClientStart)
         IN  /\ kv = storeSession(id, seed, Epoch)
             /\ script = Started(id, Epoch)
             /\ rng1 = made.rng
             /\ gameState = made.gameState
             /\ spawnManager = made.spawnManager
             /\ session = made.session
    /\ rng2 = NewGenerator(One)
    /\ gameObjectPool = NewObjectPool
    /\ animationFrameId = NoFrame
    /\ finish = NoneValidated
    /\ call = <<>>
    /\ antiCheat = NoAntiCheat
    /\ contractManager = NoContractManager
    /\ now = ClientStart
    /\ lastTap = NoTap
    /\ taps = 0
    /\ ticks = 0

\* finishSession(session.gameState.score, session.tapHistory), in whatever
\* state the session is: the score is passed as the number it is then, the
\* tapHistory as the array of the session
FinishPlayed ==
    /\ \E clientFinalScore \in {gameState.score} :
         CallFinishSession(clientFinalScore, [of |-> "session"])
    /\ UNCHANGED <<managerVars, now, taps, ticks, kv, finish>>

\* the frame callback, a task of its own
FramePlayed == ~Due /\ Frame

NextFinish ==
    \/ StartCountdown
    \/ HandleTap
    \/ FramePlayed
    \/ ShowSummary
    \/ FinishPlayed
    \/ FinishResumed
    \/ FinishRouteRead
    \/ UpdateSessionRead
    \/ UpdateSessionWrite
    \/ FinishRouteSettle
    \/ FinishAnswered

SpecFinish == InitFinish /\ [][NextFinish]_vars

-----------------------------------------------------------------------------
(* Requests for one session that the server handles at the same time: each   *)
(* is at one of its awaits                                                   *)

\* the requests: one action batch, and the finish request sent twice
ActionRequests == {"action"}

FinishRequests == {"finish", "finish again"}

\* the taps of the session: one logo
RaceTaps ==
    << [timestamp |-> Epoch + CountdownDelta + 60, position |-> ActionPosition,
        type |-> "logo", result |-> "logo"] >>

\* a request that has reached the route
Arrived == [pc |-> "arrived"]

\* no request has called finishSessionOnChain
NotSettled == [done |-> FALSE, settled |-> <<>>]

InitRace ==
    /\ \E id \in PlayIds, seed \in PauseSeeds : kv = storeSession(id, seed, Epoch)
    /\ call = [r \in ActionRequests \cup FinishRequests |-> Arrived]
    /\ finish = NotSettled
    /\ now = Epoch + CountdownDelta + BATCH_INTERVAL
    /\ script = NoScript
    /\ rng1 = NewGenerator(One)
    /\ rng2 = NewGenerator(One)
    /\ gameState = createInitialGameState(0)
    /\ session = NoSession
    /\ spawnManager = NoSpawnManager
    /\ gameObjectPool = NewObjectPool
    /\ animationFrameId = NoFrame
    /\ antiCheat = NoAntiCheat
    /\ contractManager = NoContractManager
    /\ lastTap = NoTap
    /\ taps = 0
    /\ ticks = 0

\* a route from its getSession to its updateSession call: the checks on the
\* session read, and the updates computed from it
Checked200(r, res) ==
    call' = [call EXCEPT ![r] = IF res.status = 200
                                 THEN [pc |-> "checked", response |-> res]
                                 ELSE [pc |-> "answered", response |-> res]]

\* the action route: await getSession(sessionId), then the checks and the
\* loop over the actions
ActionGet ==
    /\ \E r \in ActionRequests :
         /\ call[r].pc = "arrived"
         /\ Checked200(r, actionChecked(kv, RaceTaps, now))
    /\ UNCHANGED <<rng1, rng2, gameState, now, lastTap, script, taps, ticks, session,
                   spawnManager, gameObjectPool, animationFrameId, kv, finish,
                   antiCheat, contractManager>>

\* the finish route: await getSession(sessionId), then the isActive check and
\* the re-simulation
FinishGet ==
    /\ \E r \in FinishRequests :
         /\ call[r].pc = "arrived"
         /\ Checked200(r, finishChecked(kv, RaceTaps, now))
    /\ UNCHANGED <<rng1, rng2, gameState, now, lastTap, script, taps, ticks, session,
                   spawnManager, gameObjectPool, animationFrameId, kv, finish,
                   antiCheat, contractManager>>

\* updateSession: const existing = await getSession(sessionId)
UpdateGet ==
    /\ \E r \in DOMAIN call :
         /\ call[r].pc = "checked"
         /\ call' = [call EXCEPT ![r] = [pc |-> "merging", response |-> @.response,
                                         existing |-> kv]]
    /\ UNCHANGED <<rng1, rng2, gameState, now, lastTap, script, taps, ticks, session,
                   spawnManager, gameObjectPool, animationFrameId, kv, finish,
                   antiCheat, contractManager>>

\* updateSession: await kv.set(key, { ...existing, ...updates }); the action
\* route then answers, the finish route goes on to the chain
UpdateSet ==
    /\ \E r \in DOMAIN call :
         /\ call[r].pc = "merging"
         /\ kv' = Merged(call[r].existing, call[r].response.updates)
         /\ call' = [call EXCEPT ![r] = [pc |-> IF r \in FinishRequests THEN "stored"
                                                 ELSE "answered",
                                         response |-> @.response]]
    /\ UNCHANGED <<rng1, rng2, gameState, now, lastTap, script, taps, ticks, session,
                   spawnManager, gameObjectPool, animationFrameId, finish,
                   antiCheat, contractManager>>

\* the finish route: await finishSessionOnChain(...), then the response
FinishOnChain ==
    /\ \E r \in FinishRequests :
         /\ call[r].pc = "stored"
         /\ finish' = [finish EXCEPT !.settled =
                          Append(@, [ request      |-> r,
                                      finalScore   |-> call[r].response.finalScore,
                                      totalActions |-> Len(RaceTaps) ])]
         /\ call' = [call EXCEPT ![r] = [pc |-> "answered", response |-> @.response]]
    /\ UNCHANGED <<rng1, rng2, gameState, now, lastTap, script, taps, ticks, session,
                   spawnManager, gameObjectPool, animationFrameId, kv,
                   antiCheat, contractManager>>

NextRace == ActionGet \/ FinishGet \/ UpdateGet \/ UpdateSet \/ FinishOnChain

SpecRace == InitRace /\ [][NextRace]_vars

-----------------------------------------------------------------------------
(* Claims *)

\* C1: once the finish route has re-simulated the tapHistory of a session
\* played through GameStateManager, the score, lives, combo and streak it
\* computed and passes to updateSession are those of the client's gameState,
\* as long as the client has recorded no further tap.
C1_ReplayMatchesClient ==
    \A i \in DOMAIN call :
        (/\ call[i].kind = "finish"
         /\ "locals" \in DOMAIN call[i]
         /\ call[i].body.tapHistory = session.tapHistory)
        => /\ call[i].locals.updates.gameState.score = gameState.score
           /\ call[i].locals.updates.gameState.lives = gameState.lives
           /\ call[i].locals.updates.gameState.combo = gameState.combo
           /\ call[i].locals.updates.gameState.streak = gameState.streak

\* xorshift on 32-bit unsigned words <<hi, lo>>, every step taken modulo
\* 2^32: x << k for p = 2^k and q = 2^(16 - k), x >>> 17, x ^ y, and the
\* word after x ^= x << 13; x ^= x >>> 17; x ^= x << 5
WordShl(x, p, q) == <<((x[1] % q) * p + (x[2] \div q)) % B16, ((x[2] % q) * p) % B16>>

WordShr17(x) == <<0, x[1] \div 2>>

WordXor(x, y) == <<XorBits(x[1], y[1], 16), XorBits(x[2], y[2], 16)>>

WordStep13(x) == WordXor(x, WordShl(x, 2 ^ 13, 2 ^ 3))

WordStep17(x) == WordXor(x, WordShr17(x))

WordStep5(x) == WordXor(x, WordShl(x, 2 ^ 5, 2 ^ 11))

WordNext(x) == WordStep5(WordStep17(WordStep13(x)))

\* the word a generator made with this seed starts from: the seed modulo
\* 2^32, and 1 for seed 0
WordOfSeed(seed) == IF seed = Zero THEN <<0, 1>> ELSE <<seed[2], seed[3]>>

\* C2: two generators constructed with the same seed, and drawn from
\* independently in any interleaving, return the same value at every draw and
\* are in the same state after equally many draws; a generator constructed
\* with seed 0 does so with one constructed with seed 1, whose first value is
\* 270369.  Every value returned is the xorshift (13, 17, 5) modulo 2^32 of
\* the value returned before it, the first one that of the seed modulo 2^32.
C2_SameSeedSameSequence ==
    LET same == rng1.seed = rng2.seed \/ {rng1.seed, rng2.seed} = {Zero, One}
        n    == Min(Len(rng1.out), Len(rng2.out))
        word(v)   == <<v[2], v[3]>>
        before(g) == IF Len(g.out) = 1 THEN WordOfSeed(g.seed)
                     ELSE word(g.out[Len(g.out) - 1])
    IN  /\ same => /\ \A i \in 1..n : rng1.out[i] = rng2.out[i]
                   /\ Len(rng1.out) = Len(rng2.out) => rng1.state = rng2.state
        /\ (rng1.seed = Zero /\ Len(rng1.out) >= 1) => rng1.out[1] = NumOfInt(270369)
        /\ \A g \in {rng1, rng2} :
              Len(g.out) >= 1 =>
                 /\ g.out[Len(g.out)][1] = 0
                 /\ word(g.out[Len(g.out)]) = WordNext(before(g))

\* C2 witness: a seed-0 and a seed-1 generator, ten draws made from each, the
\* second generator drawn from first
C2_Witness ==
    /\ rng1.seed = Zero
    /\ rng2.seed = One
    /\ Len(rng1.out) = 10
    /\ Len(rng2.out) = 10
    /\ rng1.out[10] = rng2.out[10]

\* C3: the state of a generator is never zero and never negative: after
\* construction from any seed, after any draws and after any setState call.
C3_StateNonZeroUnsigned ==
    \A g \in {rng1, rng2} : g.state[1] = 0 /\ <<g.state[2], g.state[3]>> # <<0, 0>>

\* C4: the generator the finish route reconstructs from the session id and
\* session.startTime starts in the state the client's generator started in,
\* the one initializeSession made from the session id and the seed.
C4_ServerRNGStartsAsClientRNG ==
    \A i \in DOMAIN call :
        (call[i].kind = "finish" /\ "locals" \in DOMAIN call[i])
        => call[i].locals.rng = XORShift32(rng1.seed)

\* C5: in every state reached by taps of any type and card and by frames,
\* combo = min(1.0 + floor(streak/5) * 0.5, 5.0).
C5_ComboDerivedFromStreak ==
    gameState.combo = Min(10 + (gameState.streak \div 5) * 5, 50)

\* C5 witness: a streak of 45, past the cap, with a frame run
C5_Witness ==
    /\ gameState.streak = 45
    /\ gameState.combo = 50
    /\ ticks > 0

\* C6: the score is never negative, whatever results are applied.
C6_ScoreNeverNegative == FLeq(Zero64, gameState.score)

\* C6 witness: a bomb-trap gift tapped with a score of 10, leaving 0
C6_Witness ==
    /\ lastTap.type = "gift"
    /\ lastTap.card = "bomb-trap"
    /\ taps = 2
    /\ gameState.streak = 1
    /\ gameState.score = Zero64

\* C7: lives changes only on a bomb tap, and then drops by one, floored at 0;
\* glitch, bomb and miss reset combo to 1.0 and streak to 0.
C7_LivesOnlyLostToBombs ==
    [][ /\ taps' = taps => gameState'.lives = gameState.lives
        /\ taps' = taps + 1 =>
             /\ gameState'.lives = IF lastTap'.type = "bomb"
                                   THEN Max(0, gameState.lives - 1)
                                   ELSE gameState.lives
             /\ lastTap'.type \in {"glitch", "bomb", "miss"} =>
                  gameState'.combo = 10 /\ gameState'.streak = 0 ]_vars

\* C7 witness: a bomb tapped, the last life gone
C7_Witness ==
    /\ lastTap.type = "bomb"
    /\ gameState.lives = 0

\* C8: processTap reports livesLost = 1 for a glitch and for a miss (so that
\* a glitch tapped on the last life leaves none).
C8_GlitchAndMissCostALife ==
    lastTap.type \in {"glitch", "miss"} => lastTap.result.livesLost = 1

\* C9: from the fresh state the k-th consecutive logo tap brings streak to k
\* and awards 10 times the combo before it (10 for taps 1 to 5, 15 for tap 6);
\* after tap 5 combo is 1.5; a bomb right after resets combo and streak and
\* costs exactly one life.
C9_LogoRunThenBomb ==
    LET k     == script.logos
        total == IF k <= 5 THEN 10 * k ELSE 50 + 15 * (k - 5)
    IN  (~script.off /\ k <= 9) =>
          IF ~script.bomb
          THEN /\ gameState.streak = k
               /\ gameState.combo = IF k < 5 THEN 10 ELSE 15
               /\ gameState.score = Double(total)
               /\ gameState.lives = 5
               /\ k >= 1 => lastTap.result.points = IF k <= 5 THEN 10 ELSE 15
          ELSE /\ gameState.streak = 0
               /\ gameState.combo = 10
               /\ gameState.score = Double(total)
               /\ gameState.lives = 4

\* C9 witness: six logo taps and then a bomb
C9_Witness ==
    /\ ~script.off
    /\ script.logos = 6
    /\ script.bomb
    /\ lastTap.type = "bomb"

\* C10: a tapped gift revealing golden-monad leaves golden-monad among the
\* active effects; it stays there over every frame; the next logo tap scores
\* triple points and removes it.
C10_GoldenMonadOneShot ==
    [][ /\ (taps' = taps + 1 /\ lastTap'.type = "gift" /\ lastTap'.card = "golden-monad")
              => HasEffect(gameState'.activeEffects, "golden-monad")
        /\ (ticks' = ticks + 1 /\ HasEffect(gameState.activeEffects, "golden-monad"))
              => HasEffect(gameState'.activeEffects, "golden-monad")
        /\ (taps' = taps + 1 /\ lastTap'.type = "logo"
                /\ HasEffect(gameState.activeEffects, "golden-monad"))
              => /\ lastTap'.result.points = 3 * calculatePoints(gameState.combo, FALSE)
                 /\ ~HasEffect(gameState'.activeEffects, "golden-monad") ]_vars

\* C15: a session that has left COUNTDOWN for RUNNING (and any state after
\* it) has a countdown timer that reached zero: no operation made it RUNNING
\* while countdownTime was above 0.
C15_RunningOnlyAfterCountdown ==
    session.state \in {"RUNNING", "PAUSED", "FINISHED", "SUMMARY"}
        => session.countdownTime <= 0

\* C20: activeEffects never holds two effects of one type, and right after a
\* gift tap whose effect was already active the one effect of that type has
\* the card's full duration.
C20_OneEffectPerType ==
    /\ \A i, j \in 1..Len(gameState.activeEffects) :
          gameState.activeEffects[i].type = gameState.activeEffects[j].type => i = j
    /\ (lastTap.type = "gift" /\ lastTap.wasActive /\ lastTap.result.effect.startTime = now)
          => \E i \in 1..Len(gameState.activeEffects) :
                /\ gameState.activeEffects[i].type = lastTap.result.effect.type
                /\ gameState.activeEffects[i].duration =
                      createMagicCardEffect(lastTap.result.effect.type, now).duration

\* a gift has just been tapped while its effect was active and part spent
C20_Witness ==
    /\ lastTap.type = "gift"
    /\ lastTap.wasActive
    /\ lastTap.result.effect.startTime = now
    /\ ticks > 0
    /\ HasEffect(gameState.activeEffects, lastTap.result.effect.type)

\* C17: validateTapTiming fails an interval below 50 ms with high severity
\* and passes one of 50 ms or more, and the action route's timing check
\* rejects exactly the intervals validateTapTiming fails.
C17_TimingChecksAgree ==
    antiCheat.last.fn = "validateTapTiming" =>
        LET interval == antiCheat.last.args.currentTimestamp - antiCheat.last.args.lastTimestamp
        IN  /\ interval < 50 => (~antiCheat.last.result.isValid
                                   /\ antiCheat.last.result.severity = "high")
            /\ interval >= 50 => antiCheat.last.result.isValid
            /\ antiCheat.last.args.routeRejects <=> ~antiCheat.last.result.isValid

\* C18: a state whose combo is not the one its streak gives fails
\* validateGameState with high severity, and assessRisk on that one result
\* rejects.
C18_ComboMismatchRejected ==
    (/\ antiCheat.last.fn = "validateGameState"
     /\ antiCheat.last.args.gameState.combo
           # Min(10 + (antiCheat.last.args.gameState.streak \div 5) * 5, 50))
    => /\ ~antiCheat.last.result.isValid
       /\ antiCheat.last.result.severity = "high"
       /\ assessRisk(<<antiCheat.last.result>>).shouldReject

\* C19: assessRisk rejects, at risk level high, exactly when a failed result
\* has high severity or more than two failed results have medium severity.
C19_RejectsOnHighOrThreeMedium ==
    antiCheat.risk # NoRisk =>
        LET rejects == \/ FailedWith(antiCheat.results, "high") >= 1
                       \/ FailedWith(antiCheat.results, "medium") > 2
        IN  /\ antiCheat.risk.shouldReject <=> rejects
            /\ rejects => antiCheat.risk.riskLevel = "high"

\* the manager holds the same session before and after the step: none was
\* made by initializeSession (each has an id of its own) or dropped by cleanup
SameSession ==
    /\ session.state # "NONE"
    /\ session'.state # "NONE"
    /\ session'.id = session.id

C13_TapOutsideRunningIsNoOp ==
    [][ (call'.op = "handleTap" /\ session.state # "RUNNING")
          => /\ call'.returned = FALSE
             /\ UNCHANGED <<gameState, session>> ]_vars

\* handleTap has returned false on a paused session that has objects
C13_Witness ==
    /\ call.op = "handleTap"
    /\ call.returned = FALSE
    /\ session.state = "PAUSED"
    /\ session.objects # <<>>

\* C14: a frame that runs while the session is PAUSED leaves timeLeft, the
\* active effects, the objects and the generator as they were, and the first
\* frame after resumeGame takes from timeLeft no more than the time since
\* the resumeGame call.
C14_PauseStopsTheClock ==
    [][ call'.op = "update" =>
          /\ session.state = "PAUSED"
                => UNCHANGED <<gameState, session.objects, rng1, spawnManager>>
          /\ (call.op = "resumeGame" /\ call.assigned # <<>>)
                => FLeq(FSub(gameState.timeLeft, Seconds(now' - now)),
                        gameState'.timeLeft) ]_vars

\* a frame has run right after resumeGame, the page having been hidden
\* during the pause, and has taken time from timeLeft
C14_Witness ==
    /\ call.op = "update"
    /\ session.state = "RUNNING"
    /\ \E dt \in FrameDeltas, hidden \in HiddenTimes :
          /\ now = ClientStart + 3000 + hidden + dt
          /\ gameState.timeLeft = Seconds(GAME_DURATION - 3000 - dt)

\* C12: once the game-over predicate (timeLeft <= 0 or lives <= 0) holds, the
\* session is no longer RUNNING or PAUSED, so no handleTap is processed in
\* such a state: a RUNNING or PAUSED session whose game is over records no
\* further tap
C12_NoTapOnceGameIsOver ==
    [][ (session.state \in {"RUNNING", "PAUSED"} /\ isGameOver(gameState))
           => session'.tapHistory = session.tapHistory ]_vars

\* C16: a tap resolves to the one active object of highest priority (gift >
\* logo > glitch > bomb) among those whose hitbox contains the point; only
\* that object is deactivated, every other object stays as it was and in the
\* live list; when no active hitbox contains the point the result is miss and
\* the live list is unchanged
C16_TapTakesHighestPriority ==
    [][ taps' = taps + 1 =>
          LET objects == session.objects
              event   == session'.tapHistory[Len(session'.tapHistory)]
              over    == {i \in 1..Len(objects) :
                            /\ objects[i].isActive
                            /\ pointInAABB(event.position, objects[i].hitbox)}
              rank(i) == CASE objects[i].type = "gift"   -> 4
                           [] objects[i].type = "logo"   -> 3
                           [] objects[i].type = "glitch" -> 2
                           [] objects[i].type = "bomb"   -> 1
          IN  IF over = {}
              THEN event.result = "miss" /\ session'.objects = objects
              ELSE \E i \in over :
                     /\ \A j \in over : rank(i) >= rank(j)
                     /\ event.targetId = objects[i].id
                     /\ event.result = objects[i].type
                     /\ session'.objects = [objects EXCEPT ![i].isActive = FALSE] ]_vars

\* a gift, a bomb and a logo overlapped at the point tapped: the gift was
\* taken, and an active bomb and an active logo are still there
C16_Witness ==
    /\ lastTap.type = "gift"
    /\ LET objects == session.objects
           point   == session.tapHistory[Len(session.tapHistory)].position
           there(type, active) ==
               \E i \in 1..Len(objects) :
                  /\ objects[i].type = type
                  /\ objects[i].isActive = active
                  /\ pointInAABB(point, objects[i].hitbox)
       IN  there("gift", FALSE) /\ there("bomb", TRUE) /\ there("logo", TRUE)

\* C21: in every reachable game state lives is in 0..5 and timeLeft is in
\* 0..120 s, whatever taps (extra-time gifts included) and ticks were made
C21_LivesAndTimeInRange ==
    /\ gameState.lives \in 0..INITIAL_LIVES
    /\ FLeq(Zero64, gameState.timeLeft)
    /\ FLeq(gameState.timeLeft, Seconds(GAME_DURATION))

\* C22: a tick made while a time-freeze effect is active leaves timeLeft as it
\* was, spawns no object and draws nothing from the generator, and moves no
\* object
C22_FrozenTickChangesNothing ==
    [][ ( /\ ticks' = ticks + 1
          /\ session.state = "RUNNING"
          /\ HasEffect(gameState.activeEffects, "time-freeze") )
        => /\ gameState'.timeLeft = gameState.timeLeft
           /\ rng1'.state = rng1.state
           /\ Len(session'.objects) = Len(session.objects)
           /\ \A i \in 1..Len(session.objects) :
                 session'.objects[i].position = session.objects[i].position ]_vars

\* C23: a tap on a gift that reveals glitch-purge adds 5 points for every
\* glitch in the live object list and leaves no glitch in the list
C23_GlitchPurgeClearsGlitches ==
    [][ ( /\ taps' = taps + 1
          /\ lastTap'.type = "gift"
          /\ lastTap'.card = "glitch-purge" )
        => LET glitches == {i \in 1..Len(session.objects) :
                               session.objects[i].type = "glitch"}
           IN  /\ gameState'.score = FAdd(gameState.score, Double(5 * Cardinality(glitches)))
               /\ \A i \in 1..Len(session'.objects) :
                     session'.objects[i].type # "glitch" ]_vars

\* C28: the number of pool entries marked inUse equals the number of objects
\* in the session's live list, removed objects having been returned
C28_PoolInUseMatchesLiveList ==
    LET pools == gameObjectPool.pools
    IN  pools.logo.inUse + pools.glitch.inUse + pools.gift.inUse + pools.bomb.inUse
           = Len(session.objects)

\* C29: for every object in the live list the hitbox is centred on the
\* object's position and has the object's size
C29_HitboxMirrorsObject ==
    \A i \in 1..Len(session.objects) :
       LET obj == session.objects[i]
       IN  /\ obj.hitbox.x = obj.position.x
           /\ obj.hitbox.y = obj.position.y
           /\ obj.hitbox.width = obj.size.x
           /\ obj.hitbox.height = obj.size.y

\* C30: a spawn event of k objects of which g are gifts advances the
\* generator by exactly 3k + g + 1 draws, plus 1 for the burst count under
\* swarm; a frame that spawns nothing draws nothing; the first object's type,
\* x and card come from the first, second and fourth draw after the burst
\* count, and the burst count under swarm is the first draw
C30_SpawnDrawsInFixedOrder ==
    [][ ticks' = ticks + 1 =>
          LET RECURSIVE Drawn(_, _)
              Drawn(state, n) == IF state[3] >= 0 /\ n > 0
                                 THEN Drawn(NextState(state), n - 1) ELSE state
              objects == session'.objects
              new     == {i \in 1..Len(objects) : objects[i].spawnTime = now'}
              k       == Cardinality(new)
              g       == Cardinality({i \in new : objects[i].type = "gift"})
              swarm   == HasEffect(gameState'.activeEffects, "monad-swarm")
              burst   == IF swarm THEN 1 ELSE 0
              first   == objects[CHOOSE i \in new : \A j \in new : i <= j]
              start   == Drawn(rng1.state, burst)
              config  == spawnManager'.config
          IN  IF k = 0 THEN rng1'.state = rng1.state
              ELSE /\ rng1'.state = Drawn(rng1.state, 3 * k + g + 1 + burst)
                   /\ k = (IF swarm THEN NextInt(rng1.state, 2, 4) ELSE 1)
                   /\ first.type = objectType(start)
                   /\ first.position.x
                         = spawnX(Drawn(start, 1), config.screenWidth, config.objectSize.x)
                   /\ first.cardType = (IF first.type = "gift"
                                        THEN magicCard(Drawn(start, 3)) ELSE Undefined) ]_vars

\* a burst under swarm: two objects spawned in the frame just run
C30_Witness ==
    /\ HasEffect(gameState.activeEffects, "monad-swarm")
    /\ \E i, j \in 1..Len(session.objects) :
          /\ i < j
          /\ session.objects[i].spawnTime = now
          /\ session.objects[j].spawnTime = now

\* C27: the client's state hash is a function of score, lives, combo, streak
\* and the number of actions alone: a step that leaves those five as they
\* were leaves session.stateHash as it was
C27_HashOfTheFiveValues ==
    [][ ( /\ gameState'.score = gameState.score
          /\ gameState'.lives = gameState.lives
          /\ gameState'.combo = gameState.combo
          /\ gameState'.streak = gameState.streak
          /\ Len(session'.actions) = Len(session.actions) )
        => session'.stateHash = session.stateHash ]_vars

\* C24: a tap at a position outside the game area is a no-op: the only tap
\* that changes score, combo, streak, lives or tapHistory is one recorded at a
\* position inside the game area
C24_TapOutsideAreaIsNoOp ==
    [][ LET history == session'.tapHistory
            inside  == /\ history # session.tapHistory
                       /\ FLeq(Zero64, history[Len(history)].position.x)
                       /\ FLeq(history[Len(history)].position.x, Px(SCREEN_WIDTH))
                       /\ FLeq(Zero64, history[Len(history)].position.y)
                       /\ FLeq(history[Len(history)].position.y, Px(SCREEN_HEIGHT))
        IN  (taps' = taps + 1 /\ ~inside)
               => /\ history = session.tapHistory
                  /\ gameState'.score = gameState.score
                  /\ gameState'.combo = gameState.combo
                  /\ gameState'.streak = gameState.streak
                  /\ gameState'.lives = gameState.lives ]_vars

\* C25: every handleTap accepted in RUNNING appends exactly one TapEvent with
\* the resolved result to tapHistory, and no step modifies, removes or
\* reorders the entries already recorded
C25_TapHistoryIsAppendOnly ==
    [][ LET old   == session.tapHistory
            new   == session'.tapHistory
            event == new[Len(new)]
        IN  IF taps' = taps + 1
            THEN /\ Len(new) = Len(old) + 1
                 /\ SubSeq(new, 1, Len(old)) = old
                 /\ event.timestamp = now
                 /\ event.result = lastTap'.type
                 /\ \/ event.result = "miss" /\ event.targetId = Undefined
                    \/ \E i \in 1..Len(session.objects) :
                          /\ session.objects[i].id = event.targetId
                          /\ session.objects[i].type = event.result
            ELSE new = old ]_vars

\* a hit and then a miss have been recorded, in that order
C25_Witness ==
    \E i, j \in 1..Len(session.tapHistory) :
       /\ i < j
       /\ session.tapHistory[i].result = "bomb"
       /\ session.tapHistory[j].result = "miss"

\* C26: what handleTap and the frame callback (the end of the game included)
\* leave in the session, the game state, the spawn manager, the generator,
\* the pool and the frame request is what they leave when no contract
\* manager is set, whatever promises are pending, resolved or rejected; and a
\* promise that settles changes none of them
C26_GameIgnoresContractManager ==
    [][ LET detached == [This EXCEPT !.contractManager = NoContractManager]
            Game(this) == <<this.session, this.gameState, this.spawnManager, this.rng,
                            this.pool, this.animationFrameId>>
            after == <<session', gameState', spawnManager', rng1'.state,
                       gameObjectPool', animationFrameId'>>
        IN  /\ taps' = taps + 1
                 => \E position \in BombTapPoints :
                       after = Game(handleTap(detached, position, now).this)
            /\ ticks' = ticks + 1
                 => \E done \in update(detached, now') : after = Game(done.this)
            /\ (taps' = taps /\ ticks' = ticks /\ contractManager' # contractManager)
                 => after = Game(This) ]_vars

\* the game has ended with a contract manager set: a recordGameAction promise
\* was rejected, and the finishGameSession promise is there
C26_Witness ==
    /\ session.state \in {"FINISHED", "SUMMARY"}
    /\ \E i, j \in 1..Len(contractManager.promises) :
          /\ contractManager.promises[i].method = "recordGameAction"
          /\ contractManager.promises[i].state = "rejected"
          /\ contractManager.promises[j].method = "finishGameSession"

\* C31: a spawn event without monad-swarm makes exactly 1 object, and one
\* under monad-swarm a burst of 2, 3 or 4 objects, each size obtainable.  The
\* burst size never decreases as the value drawn for it grows, so if a burst
\* of 4 is obtainable the largest value the generator returns, 2^32 - 1,
\* obtains it
C31_LargestDrawGivesBurstOfFour ==
    /\ (call.op = "update" /\ call.returned > 0 /\ call.assigned = <<1>>)
          => call.returned = 1
    /\ (call.op = "update" /\ call.returned > 0 /\ call.assigned = <<3>>)
          => /\ call.returned \in {2, 3, 4}
             /\ rng1.out[Len(rng1.out)] = <<0, B16 - 1, B16 - 1>> => call.returned = 4

C40_ObjectTappedAtMostOnce ==
    \/ session = NoSession
    \/ \A i, j \in 1..Len(session.tapHistory) :
         (i # j /\ session.tapHistory[i].targetId # Undefined)
            => session.tapHistory[i].targetId # session.tapHistory[j].targetId

\* two taps at one point while time-freeze is active: the first took a gift
\* that is still in the live list, inactive, and the second did not take it
C40_Witness ==
    /\ session # NoSession
    /\ Len(session.tapHistory) = 2
    /\ session.tapHistory[1].position = session.tapHistory[2].position
    /\ session.tapHistory[1].result = "gift"
    /\ HasEffect(gameState.activeEffects, "time-freeze")
    /\ \E k \in 1..Len(session.objects) :
         /\ session.objects[k].id = session.tapHistory[1].targetId
         /\ ~session.objects[k].isActive
         /\ pointInAABB(session.tapHistory[2].position, session.objects[k].hitbox)

\* C33: pausing advances nothing.  On the first tick after resumeGame the
\* difficulty is the one of the time played, as in a session that was never
\* paused, and objects are spawned on that tick only if the time played since
\* the last spawn has reached the spawn delay.
C33_PauseAdvancesNothing ==
    [][ (script.resumed /\ session.state = "RUNNING" /\ ticks' = ticks + 1) =>
          /\ gameState'.difficulty \in updateDifficulty(script'.played)
          /\ spawnManager'.lastSpawnTime # spawnManager.lastSpawnTime
               => FLeq(spawnManager.nextSpawnDelay,
                       Double(script'.played - script.spawnedAt)) ]_vars

\* C34: every TapEvent of the session's tapHistory has a timestamp from
\* gameStartTime to gameStartTime + 120000 ms, in sessions that were paused
\* too.
C34_TapsWithinSessionWindow ==
    \/ session = NoSession
    \/ \A i \in 1..Len(session.tapHistory) :
         /\ session.tapHistory[i].timestamp >= gameState.gameStartTime
         /\ session.tapHistory[i].timestamp <= gameState.gameStartTime + MAX_GAME_DURATION

C36_EveryFlushedBatchAccepted ==
    \A i \in DOMAIN call :
        (call[i].kind = "action" /\ "response" \in DOMAIN call[i])
        => call[i].response.status # 429

\* the state of a game in which the actions have been tapped in order, from
\* the initial state (the test on next makes TLC evaluate it before the loop
\* goes on)
RECURSIVE Folded(_, _, _)
Folded(actions, state, t) ==
    IF actions = <<>> THEN state
    ELSE LET next == applyTapResult(state, processTap(state, Head(actions).type, Undefined, t))
         IN  IF next.lives >= 0 THEN Folded(Tail(actions), next, t)
             ELSE Folded(Tail(actions), next, t)

\* C37: after the batches processed so far, the score, lives, combo and
\* streak stored for the session are those of all the validated actions of
\* all the batches, applied in order from the initial state.
C37_StoredStateFoldsAllBatches ==
    finish.writer = "action" =>
    \E all \in {Folded(finish.validated, createInitialGameState(now), now)} :
       /\ kv.gameState.score = all.score
       /\ kv.gameState.lives = all.lives
       /\ kv.gameState.combo = all.combo
       /\ kv.gameState.streak = all.streak

\* C38: once the stored session has isActive = false it never has
\* isActive = true again, whatever the order in which an action request and
\* the finish requests read and write it.
C38_FinishedSessionStaysInactive ==
    [][ ~kv.isActive => ~kv'.isActive ]_vars

\* C39: a session is settled at most once: of the finish requests handled at
\* the same time, at most one passes the isActive check and calls
\* finishSessionOnChain.
C39_SettledAtMostOnce ==
    /\ Len(finish.settled) <= 1
    /\ Cardinality({r \in DOMAIN call :
                      /\ call[r].pc # "arrived"
                      /\ call[r].response.status = 200
                      /\ "finalScore" \in DOMAIN call[r].response}) <= 1

====
